---- MODULE Spec2Model ----
(***************************************************************************)
(* Gap-analysis engine of backend/gap_analysis.py (run_gap_analysis and    *)
(* its helpers) together with its HTTP entry point api_gap_analysis of     *)
(* backend/app.py.                                                         *)
(*                                                                         *)
(* Conventions of the model                                                *)
(*  - A Python string is a TLA+ string; "" also stands for a key that is   *)
(*    missing or None wherever the code only tests truthiness.             *)
(*  - A float score is an integer in units of 10^-6 (ScoreScale); a value  *)
(*    rounded to 4 decimals and a threshold are integers in units of       *)
(*    10^-4.                                                               *)
(*  - An embedding vector is a pair of integers whose norm is an integer,  *)
(*    so that the cosine is an exact rational.                             *)
(***************************************************************************)
EXTENDS Integers, Sequences, FiniteSets, TLC

VARIABLES
    SIMILARITY_THRESHOLDS,  \* module constant read from the environment at import
    api_key,                \* os.getenv("OPENAI_API_KEY") is set
    client,                 \* the global _client is not None
    pc,                     \* position of the current request
    via,                    \* "http" (api_gap_analysis) or "direct" (library call)
    businesses,             \* argument of run_gap_analysis
    trends,                 \* argument of run_gap_analysis
    generate,               \* argument generate_product_proposals
    catalog_report,         \* local of run_gap_analysis
    product_vectors,        \* local
    trend_vectors,          \* local
    similarity_map,         \* local
    coverage_buckets,       \* local
    insights,               \* local
    product_proposals,      \* local
    calls,                  \* external capability calls issued by this request
    invoked,                \* times the handler called run_gap_analysis for this request
    exc,                    \* exception raised by run_gap_analysis ("" if none)
    result,                 \* value returned by run_gap_analysis
    payload,                \* JSON body of the HTTP request
    probe,                  \* a pure function applied on its own: input and output
    response                \* HTTP response of api_gap_analysis

vars == <<SIMILARITY_THRESHOLDS, api_key, client, pc, via, businesses, trends,
          generate, catalog_report, product_vectors, trend_vectors, similarity_map,
          coverage_buckets, insights, product_proposals, calls, invoked, exc, result,
          payload, probe, response>>

reqvars == <<via, businesses, trends, generate, catalog_report, product_vectors,
             trend_vectors, similarity_map, coverage_buckets, insights,
             product_proposals, calls, invoked, exc, result, payload, response>>

(***************************************************************************)
(* Bounds                                                                  *)
(***************************************************************************)
MaxTrends == 2        \* longest trends list of a request
MaxBusinesses == 1    \* longest businesses list of a request

(***************************************************************************)
(* Generic helpers                                                         *)
(***************************************************************************)
Range(s) == {s[i] : i \in 1..Len(s)}

Min(a, b) == IF a <= b THEN a ELSE b

SeqsUpTo(S, n) == UNION {[1..k -> S] : k \in 0..n}

Repeat(x, k) == [i \in 1..k |-> x]

\* Mutant: the later groups come first.
RECURSIVE ConcatReversed(_)
ConcatReversed(ss) == IF ss = <<>> THEN <<>> ELSE ConcatReversed(Tail(ss)) \o Head(ss)

\* items.append(...) in nested loops: the groups one after the other.
RECURSIVE Concat(_)
Concat(ss) == IF ss = <<>> THEN <<>> ELSE Head(ss) \o Concat(Tail(ss))

\* filter(None, parts): the non-empty strings, in order.
FilterNone(parts) == SelectSeq(parts, LAMBDA p : p # "")

(***************************************************************************)
(* Inputs: product catalogs                                                *)
(***************************************************************************)
\* A price text is the sequence of its lexemes: " " is whitespace; <<>> stands for
\* a missing or empty value.
Product(n, d, k) ==
    [name |-> n, description |-> d, keywords |-> k, pricing |-> <<>>, price |-> <<>>]

Priced(product, text) == [product EXCEPT !.pricing = text]

Widget == Product("Widget", "a smart widget for homes", <<"smart", "home">>)
Gadget == Product("Gadget", "", <<>>)
Blank  == Product("", "", <<>>)      \* no name, no description: no embeddable text

\* has_name says that the dict has a "name" key (its value may be "" or null).
Business(n, c, ps) ==
    [has_name |-> n # "", name |-> n, company_name |-> c, strapline |-> "",
     audience |-> "", products |-> ps]

Acme == Business("Acme", "", <<Widget, Gadget, Blank>>)
Bolt == Business("", "Bolt Ltd", <<Blank>>)
Nova == Business("", "Nova Ltd", <<Gadget>>)                          \* company_name only
Nameless == [Business("", "", <<Widget>>) EXCEPT !.has_name = TRUE]   \* "name": null

Businesses == {Acme, Bolt}

BusinessInputs == SeqsUpTo(Businesses, MaxBusinesses)

(***************************************************************************)
(* Inputs: raw trend records.  isdict = FALSE is a non-dict element (a     *)
(* string or null); hasResults says that raw["results"] is a list.         *)
(***************************************************************************)
Raw(t, ti, cc, kws) ==
    [isdict |-> TRUE, trend |-> t, title |-> ti, core_concept |-> cc, industry |-> "",
     name |-> "", description |-> "", keywords |-> kws, semantic_keywords |-> <<>>]

NonDictChild ==
    [isdict |-> FALSE, trend |-> "", title |-> "", core_concept |-> "", industry |-> "",
     name |-> "", description |-> "", keywords |-> <<>>, semantic_keywords |-> <<>>]

WithResults(r, has, rs) ==
    [isdict |-> r.isdict, trend |-> r.trend, title |-> r.title,
     core_concept |-> r.core_concept, industry |-> r.industry, name |-> r.name,
     description |-> r.description, keywords |-> r.keywords,
     semantic_keywords |-> r.semantic_keywords, hasResults |-> has, results |-> rs]

Flat(r) == WithResults(r, FALSE, <<>>)

SmartHome == Raw("smart home", "", "", <<"smart", "home", "automation">>)
AiAgents  == Raw("", "ai agents", "", <<>>)
GreenTech == Raw("green energy", "", "", <<"solar">>)
Untitled  == Raw("", "", "", <<"misc">>)       \* a dict with none of the title keys

NonDict  == Flat(NonDictChild)
Wrapper  == WithResults(Untitled, TRUE, <<GreenTech, NonDictChild>>)

RawTrends == {Flat(SmartHome), Flat(AiAgents), Flat(Untitled), NonDict, Wrapper}

TrendInputs == SeqsUpTo(RawTrends, MaxTrends)

(***************************************************************************)
(* Text helpers.  A joined string is kept as the sequence of its non-empty *)
(* pieces: it is falsy iff the sequence is empty.                          *)
(***************************************************************************)
Tokenize(text) ==
    CASE text = "smart home"   -> <<"smart", "home">>
      [] text = "ai agents"    -> <<"ai", "agents">>
      [] text = "green energy" -> <<"green", "energy">>
      [] text = "Widget"       -> <<"widget">>
      [] text = "Gadget"       -> <<"gadget">>
      [] text = ""             -> <<>>
      [] text = " "            -> <<>>
      [] OTHER                 -> <<text>>

RECURSIVE TokenizeAll(_)
TokenizeAll(texts) ==
    IF texts = <<>> THEN <<>> ELSE Tokenize(Head(texts)) \o TokenizeAll(Tail(texts))

FirstTruthy(vals) == IF FilterNone(vals) = <<>> THEN "" ELSE Head(FilterNone(vals))

\* dict.get(key, default) for a string field: "" stands for a missing key.
GetOr(v, default) == IF v = "" THEN default ELSE v

\* round(n / d, k) with the quotient scaled to an integer: round-half-even of n/d, d > 0.
RoundDiv(n, d) ==
    LET q == n \div d
        r == n % d
    IN  IF 2 * r > d \/ (2 * r = d /\ q % 2 = 1) THEN q + 1 ELSE q

(***************************************************************************)
(* Text Normalizer                                                         *)
(***************************************************************************)
PriceScale == 10 ^ 3          \* units of a price: 10^-3

\* s.replace(token, "") for "From", "from", "+" and for the currency symbols.
RemovedTokens == {"From", "from", "+", "$", "€", "£", "L.L", "LL", "LBP"}

RECURSIVE StripLeft(_)
StripLeft(s) == IF s # <<>> /\ Head(s) = " " THEN StripLeft(Tail(s)) ELSE s

RECURSIVE StripRight(_)
StripRight(s) ==
    IF s # <<>> /\ s[Len(s)] = " " THEN StripRight(SubSeq(s, 1, Len(s) - 1)) ELSE s

Strip(s) == StripRight(StripLeft(s))

\* s.split()[0] of a stripped, non-empty text: the lexemes before the first whitespace.
RECURSIVE FirstToken(_)
FirstToken(s) ==
    IF s = <<>> \/ Head(s) = " " THEN <<>> ELSE <<Head(s)>> \o FirstToken(Tail(s))

\* float(token): the value of a numeric literal, ValueError (ok = FALSE) otherwise.
\* Two lexemes side by side form one literal that is not a number.
Float(token) ==
    LET NotANumber == [ok |-> FALSE, value |-> 0]
        Number(v)  == [ok |-> TRUE, value |-> v]
    IN  IF Len(token) # 1 THEN NotANumber
        ELSE CASE token[1] = "0"     -> Number(0)
               [] token[1] = "9.999" -> Number(9999)
               [] token[1] = "10"    -> Number(10 * PriceScale)
               [] token[1] = "20"    -> Number(20 * PriceScale)
               [] token[1] = "30"    -> Number(30 * PriceScale)
               [] token[1] = "40"    -> Number(40 * PriceScale)
               [] token[1] = "110"   -> Number(110 * PriceScale)
               [] token[1] = "150"   -> Number(150 * PriceScale)
               [] OTHER              -> NotANumber

None == [raised |-> FALSE, some |-> FALSE, value |-> 0]

Some(v) == [raised |-> FALSE, some |-> TRUE, value |-> v]

\* Mutant: the ValueError of float() is not caught.
ParsePriceUncaught(price) ==
    LET s == Strip(SelectSeq(Strip(price), LAMBDA x : x \notin RemovedTokens))
    IN  IF price = <<>> \/ s = <<>> THEN None
        ELSE IF Float(FirstToken(s)).ok THEN Some(Float(FirstToken(s)).value)
        ELSE [raised |-> TRUE, some |-> FALSE, value |-> 0]

_parse_price(price) ==
    LET s == Strip(SelectSeq(Strip(price), LAMBDA x : x \notin RemovedTokens))
    IN  IF price = <<>> THEN None
        ELSE IF s = <<>> THEN None
        ELSE IF Float(FirstToken(s)).ok THEN Some(Float(FirstToken(s)).value)
        ELSE None

FlattenBusiness(biz) ==
    [i \in 1..Len(biz.products) |->
        [business    |-> FirstTruthy(<<biz.name, biz.company_name, "Unknown Business">>),
         name        |-> biz.products[i].name,
         description |-> biz.products[i].description,
         keywords    |-> biz.products[i].keywords,
         pricing_raw |-> IF biz.products[i].pricing # <<>> THEN biz.products[i].pricing
                         ELSE biz.products[i].price,
         price_numeric |-> _parse_price(IF biz.products[i].pricing # <<>>
                                        THEN biz.products[i].pricing
                                        ELSE biz.products[i].price)]]

_flatten_products(bs) == Concat([i \in 1..Len(bs) |-> FlattenBusiness(bs[i])])

\* The embedding text of a product: " | ".join(filter(None, [...])).
ProductText(biz, product) ==
    FilterNone(<<product.name, product.description, biz.strapline, biz.audience>>)

\* Mutant: a product without any text is embedded too.
ProductRowsOfUnfiltered(biz) ==
    [i \in 1..Len(biz.products) |->
        [business    |-> IF biz.has_name THEN biz.name ELSE "Unknown Business",
         product     |-> GetOr(biz.products[i].name, "Unnamed"),
         description |-> biz.products[i].description,
         text        |-> ProductText(biz, biz.products[i])]]

ProductRowsOf(biz) ==
    LET all == [i \in 1..Len(biz.products) |->
                  [business    |-> IF biz.has_name THEN biz.name ELSE "Unknown Business",
                   product     |-> GetOr(biz.products[i].name, "Unnamed"),
                   description |-> biz.products[i].description,
                   text        |-> ProductText(biz, biz.products[i])]]
    IN  SelectSeq(all, LAMBDA row : row.text # <<>>)

\* rows of _prepare_product_vectors: the products with a non-empty text, in order.
ProductRows(bs) == Concat([i \in 1..Len(bs) |-> ProductRowsOf(bs[i])])

Dropped == [kept |-> FALSE, trend |-> "", description |-> <<>>, keywords |-> <<>>]

\* Mutant: only `trend` and `title` are looked at for the title.
NormalizeTrendOrTitle(raw) ==
    LET title == FirstTruthy(<<raw.trend, raw.title>>)
    IN  IF ~raw.isdict THEN Dropped
        ELSE IF title = "" THEN Dropped
        ELSE [kept        |-> TRUE,
              trend       |-> title,
              description |-> FilterNone(<<raw.description,
                                           IF raw.core_concept # title
                                           THEN raw.core_concept ELSE "">>),
              keywords    |-> FilterNone(raw.keywords \o raw.semantic_keywords)]

_normalize_trend_record(raw) ==
    LET title == FirstTruthy(<<raw.trend, raw.title, raw.core_concept, raw.industry,
                               raw.name>>)
    IN  IF ~raw.isdict THEN Dropped
        ELSE IF title = "" THEN Dropped
        ELSE [kept        |-> TRUE,
              trend       |-> title,
              description |-> FilterNone(<<raw.description,
                                           IF raw.core_concept # title
                                           THEN raw.core_concept ELSE "">>),
              keywords    |-> FilterNone(raw.keywords \o raw.semantic_keywords)]

NormalizeAll(raws) ==
    SelectSeq([i \in 1..Len(raws) |-> _normalize_trend_record(raws[i])],
              LAMBDA n : n.kept)

FlattenOne(raw) ==
    IF raw.isdict /\ raw.hasResults THEN NormalizeAll(raw.results)
    ELSE NormalizeAll(<<raw>>)

_flatten_trend_records(ts) == Concat([i \in 1..Len(ts) |-> FlattenOne(ts[i])])

\* The embedding text of a normalized trend.
TrendText(entry) == FilterNone(<<entry.trend>>) \o entry.description \o entry.keywords

\* rows of _prepare_trend_vectors.
TrendRows(ts) ==
    LET norm == _flatten_trend_records(ts)
        all  == [i \in 1..Len(norm) |->
                   [name     |-> norm[i].trend,
                    insight  |-> norm[i].description,
                    evidence |-> norm[i].keywords,
                    text     |-> TrendText(norm[i])]]
    IN  SelectSeq(all, LAMBDA row : row.name # "" /\ row.text # <<>>)

(***************************************************************************)
(* Trend alignment (lexical)                                               *)
(***************************************************************************)
CatalogTokens(flat) ==
    UNION {Range(Tokenize(flat[i].name)) \cup Range(TokenizeAll(flat[i].keywords)) :
           i \in 1..Len(flat)}

\* Mutant: the status is read off the rounded score.
AlignStatusOfRounded(m, t) ==
    IF RoundDiv(100 * m, t) >= 70 THEN "covered"
    ELSE IF RoundDiv(100 * m, t) >= 40 THEN "weak_coverage"
    ELSE "gap"

AlignStatus(m, t) ==
    IF 10 * m >= 7 * t THEN "covered"
    ELSE IF 10 * m >= 4 * t THEN "weak_coverage"
    ELSE "gap"

AlignLabel(trend) == FirstTruthy(<<trend.trend, trend.name>>)

AlignTokens(trend) == Tokenize(AlignLabel(trend)) \o TokenizeAll(trend.keywords)

AlignEntry(vocab, trend) ==
    LET tokens  == AlignTokens(trend)
        matches == SelectSeq(tokens, LAMBDA tok : tok \in vocab)
    IN  [trend          |-> AlignLabel(trend),
         coverage_score |-> RoundDiv(100 * Len(matches), Len(tokens)),
         matched_tokens |-> matches,
         status         |-> AlignStatus(Len(matches), Len(tokens))]

\* trend.get(...) on an element that is not a dict raises AttributeError.
AlignRaises(ts) == \E i \in 1..Len(ts) : ~ts[i].isdict

_simple_trend_alignment(flat, ts) ==
    LET usable == SelectSeq(ts, LAMBDA t : AlignLabel(t) # "" /\ AlignTokens(t) # <<>>)
    IN  [i \in 1..Len(usable) |-> AlignEntry(CatalogTokens(flat), usable[i])]

(***************************************************************************)
(* Similarity Engine                                                       *)
(***************************************************************************)
ScoreScale == 10 ^ 6          \* units of a score: 10^-6
RoundUnit  == 10 ^ 2          \* score units per 10^-4 (round(score, 4))

\* What the embedding capability answers: one of three functions from a text to a
\* vector (each vector of integer norm).  A text is told by its first piece (the
\* product name or the trend title).
EmbeddingModels == {"a", "b", "c"}

Embedding(m, text) ==
    LET key == Head(text)
    IN  CASE m = "a" ->
               (CASE key \in {"Widget", "smart home"} -> <<1, 0>>
                  [] key \in {"Gadget", "ai agents"}  -> <<12, 5>>
                  [] OTHER                            -> <<0, 0>>)
          [] m = "b" ->
               (CASE key \in {"Widget", "Gadget", "ai agents"} -> <<1, 0>>
                  [] OTHER                                     -> <<12, 5>>)
          [] OTHER ->
               (CASE key \in {"Widget", "ai agents"} -> <<12, 5>>
                  [] key = "smart home"              -> <<0, 0>>
                  [] OTHER                           -> <<1, 0>>)

\* Thresholds a deployment may configure through GAP_THRESHOLD_COVERED and
\* GAP_THRESHOLD_WEAK (units of 10^-4); the first pair is the default.
DeployedConfigs ==
    {[covered |-> 6500, weak |-> 4000],
     [covered |-> 9231, weak |-> 4000]}

\* Nothing orders the two environment variables.
ThresholdConfigs == DeployedConfigs \cup {[covered |-> 4000, weak |-> 9500]}

Dot(a, b) == a[1] * b[1] + a[2] * b[2]

(***************************************************************************)
(* np.float32 arithmetic.  A float is sign, mantissa and exponent: its     *)
(* value is m * 2^e with 2^23 <= m < 2^24, or zero (m = 0).  Every          *)
(* operation rounds its exact result to nearest, ties to even.  Vector     *)
(* components are small integers, so exponents stay far from the format's  *)
(* limits and sums of products are exact.                                  *)
(***************************************************************************)
MantissaBits == 24

MinMantissa == 2 ^ (MantissaBits - 1)

HalfWord == 2 ^ (MantissaBits \div 2)

Zero32 == [neg |-> FALSE, m |-> 0, e |-> 0]

RECURSIVE Normalize(_, _, _)
Normalize(neg, m, e) ==
    IF m = 0 THEN Zero32
    ELSE IF m >= 2 * MinMantissa THEN Normalize(neg, m \div 2, e + 1)
    ELSE IF m < MinMantissa THEN Normalize(neg, 2 * m, e - 1)
    ELSE [neg |-> neg, m |-> m, e |-> e]

\* An integer of fewer than 24 bits is a float32 exactly.
FromInt(n) == IF n < 0 THEN Normalize(TRUE, 0 - n, 0) ELSE Normalize(FALSE, n, 0)

\* Round to nearest even: m is the truncated mantissa, rest/half the discarded part.
RoundEven(neg, m, e, rest, half) ==
    IF rest > half \/ (rest = half /\ m % 2 = 1)
    THEN Normalize(neg, m + 1, e)
    ELSE [neg |-> neg, m |-> m, e |-> e]

\* Square root, one binary digit at a time: root^2 + rem is the radicand scaled by
\* 4^(-e), and rem <= 2 * root.
RECURSIVE SqrtDigits(_, _, _)
SqrtDigits(root, rem, e) ==
    IF root >= MinMantissa
    THEN RoundEven(FALSE, root, e, 2 * rem, 2 * root + 1)
    ELSE LET trial == 4 * root + 1
         IN  IF 4 * rem >= trial
             THEN SqrtDigits(2 * root + 1, 4 * rem - trial, e - 1)
             ELSE SqrtDigits(2 * root, 4 * rem, e - 1)

Sqrt32(n) ==
    IF n = 0 THEN Zero32
    ELSE LET root == CHOOSE k \in 1..n : k * k <= n /\ n < (k + 1) * (k + 1)
         IN  SqrtDigits(root, n - root * root, 0)

\* x * y: the 48-bit product of the mantissas from 12-bit halves, then rounded.
Mul32(x, y) ==
    IF x.m = 0 \/ y.m = 0 THEN Zero32
    ELSE LET a1    == x.m \div HalfWord
             a0    == x.m % HalfWord
             b1    == y.m \div HalfWord
             b0    == y.m % HalfWord
             cross == a1 * b0 + a0 * b1
             low   == (cross % HalfWord) * HalfWord + a0 * b0
             hi    == a1 * b1 + cross \div HalfWord + low \div (2 * MinMantissa)
             lo    == low % (2 * MinMantissa)
             neg   == x.neg # y.neg
         IN  IF hi >= MinMantissa
             THEN RoundEven(neg, hi, x.e + y.e + MantissaBits, lo, MinMantissa)
             ELSE RoundEven(neg, 2 * hi + lo \div MinMantissa,
                            x.e + y.e + MantissaBits - 1,
                            lo % MinMantissa, MinMantissa \div 2)

\* x / y by long division: q is the quotient so far, rem < y.m the remainder.
RECURSIVE DivDigits(_, _, _, _, _)
DivDigits(neg, q, rem, d, e) ==
    IF q >= MinMantissa
    THEN RoundEven(neg, q, e, 2 * rem, d)
    ELSE IF 2 * rem >= d
         THEN DivDigits(neg, 2 * q + 1, 2 * rem - d, d, e - 1)
         ELSE DivDigits(neg, 2 * q, 2 * rem, d, e - 1)

Div32(x, y) ==
    IF x.m = 0 THEN Zero32
    ELSE DivDigits(x.neg # y.neg, x.m \div y.m, x.m % y.m, y.m, x.e - y.e)

\* |x| <= 1.0
AbsAtMostOne(x) ==
    \/ x.m = 0
    \/ x.e < 1 - MantissaBits
    \/ x.e = 1 - MantissaBits /\ x.m = MinMantissa

\* np.linalg.norm(a): sqrt(a . a)
Norm(a) == Sqrt32(Dot(a, a))

\* The float the code returns.
Cosine32(a, b) ==
    LET denom == Mul32(Norm(a), Norm(b))
    IN  IF denom.m = 0 THEN Zero32 ELSE Div32(FromInt(Dot(a, b)), denom)

\* A float of magnitude below 2, in units of 10^-6 (truncated):
\* m * 2^e * 10^6 = m * (10^6 / 2^6) / 2^(-e - 6).
Micro(x) ==
    LET k     == ScoreScale \div (2 ^ 6)
        shift == 0 - x.e - 6 - (MantissaBits \div 2)
        u     == (x.m \div HalfWord) * k + ((x.m % HalfWord) * k) \div HalfWord
        mag   == IF x.m = 0 \/ shift > 30 THEN 0 ELSE u \div (2 ^ shift)
    IN  IF x.neg THEN 0 - mag ELSE mag

_cosine(a, b) == Micro(Cosine32(a, b))

\* round(score, 4), in units of 10^-4.
Round4(score) == RoundDiv(score, RoundUnit)

\* Mutant: the comparisons are strict.
CategorizeStrict(th, score) ==
    IF score > th.covered * RoundUnit THEN "covered"
    ELSE IF score > th.weak * RoundUnit THEN "weak"
    ELSE "gap"

CategorizeWith(th, score) ==
    IF score >= th.covered * RoundUnit THEN "covered"
    ELSE IF score >= th.weak * RoundUnit THEN "weak"
    ELSE "gap"

_categorize(score) == CategorizeWith(SIMILARITY_THRESHOLDS, score)

\* Mutant: a later product of equal score replaces the best one.
BetterOrEqual(score, best) == best.idx = 0 \/ score >= best.score

\* `if best is None or score > best[1]`; idx = 0 stands for best = None.
Better(score, best) == best.idx = 0 \/ score > best.score

RECURSIVE BestFrom(_, _, _, _)
BestFrom(tv, pvs, i, best) ==
    IF i > Len(pvs) THEN best
    ELSE LET score == _cosine(tv.vector, pvs[i].vector)
         IN  BestFrom(tv, pvs, i + 1,
                      IF Better(score, best) THEN [idx |-> i, score |-> score] ELSE best)

BestMatch(tv, pvs) == BestFrom(tv, pvs, 1, [idx |-> 0, score |-> 0])

\* Mutant: the entry carries the keywords of its trend.
MakeEntryWithKeywords(tv, pvs) ==
    LET best    == BestMatch(tv, pvs)
        product == pvs[best.idx]
    IN  [trend              |-> tv.name,
         trend_summary      |-> IF tv.insight # <<>> THEN tv.insight ELSE tv.evidence,
         best_match_product |-> product.product,
         business           |-> product.business,
         similarity         |-> Round4(best.score),
         category           |-> _categorize(best.score),
         keywords           |-> tv.evidence,
         product_summary    |-> product.description]

MakeEntry(tv, pvs) ==
    LET best    == BestMatch(tv, pvs)
        product == pvs[best.idx]
    IN  [trend              |-> tv.name,
         trend_summary      |-> IF tv.insight # <<>> THEN tv.insight ELSE tv.evidence,
         best_match_product |-> product.product,
         business           |-> product.business,
         similarity         |-> Round4(best.score),
         category           |-> _categorize(best.score),
         keywords           |-> <<>>,
         product_summary    |-> product.description]

Categories == {"covered", "weak", "gap"}

EmptyBuckets == [c \in Categories |-> <<>>]

\* Mutant: a weak entry is filed under gap.
AddToBucketMisfiled(buckets, entry) ==
    [buckets EXCEPT ![IF entry.category = "weak" THEN "gap" ELSE entry.category] =
                        Append(@, entry)]

\* coverage_buckets[category].append(entry)
AddToBucket(buckets, entry) ==
    [buckets EXCEPT ![entry.category] = Append(@, entry)]

(***************************************************************************)
(* Insight & Proposal Generator: what the chat capability may answer and   *)
(* how json.loads reads it.                                                *)
(***************************************************************************)
RequiredFields ==
    {"trend", "proposal", "why_it_helps", "target_persona", "success_metrics",
     "system_impact", "risks", "working_hours", "working_price", "coverage_level"}

ProposalFields == RequiredFields \cup {"launch_steps"}

FullProposal    == [fields |-> ProposalFields, launch_steps |-> 4]
NoStepsProposal == [fields |-> RequiredFields, launch_steps |-> 0]

TextContent     == "I am sorry, I cannot help with that."
ListContent     == "[1, 2]"
EmptyObjContent == "{}"
InsightContent  == "{\"insight_summary\": \"s\", \"recommendations\": [], \"priority_matrix\": []}"
NotListContent  == "{\"proposals\": \"none\"}"
FullContent     == "{\"proposals\": [{<all eleven fields, four launch_steps>}]}"
NoStepsContent  == "{\"proposals\": [{<the ten required fields>}]}"

InsightContents == {InsightContent, TextContent, ListContent}

ProposalContents ==
    {FullContent, NoStepsContent, NotListContent, ListContent, TextContent}

NotJson == [ok |-> FALSE, type |-> "", keys |-> {}, proposals_is_list |-> FALSE,
            proposals |-> <<>>]

JsonDict(keys, isList, ps) ==
    [ok |-> TRUE, type |-> "dict", keys |-> keys, proposals_is_list |-> isList,
     proposals |-> ps]

\* json.loads(content): ok = FALSE when it raises.
JsonLoads(content) ==
    CASE content = ListContent     -> [ok |-> TRUE, type |-> "list", keys |-> {},
                                       proposals_is_list |-> FALSE, proposals |-> <<>>]
      [] content = EmptyObjContent -> JsonDict({}, FALSE, <<>>)
      [] content = InsightContent  ->
            JsonDict({"insight_summary", "recommendations", "priority_matrix"}, FALSE, <<>>)
      [] content = NotListContent  -> JsonDict({"proposals"}, FALSE, <<>>)
      [] content = FullContent     -> JsonDict({"proposals"}, TRUE, <<FullProposal>>)
      [] content = NoStepsContent  -> JsonDict({"proposals"}, TRUE, <<NoStepsProposal>>)
      [] OTHER                     -> NotJson

\* The json_schema sent with the proposal request: an object with a required
\* `proposals` array whose items carry the required fields.
SchemaConforms(content) ==
    LET data == JsonLoads(content)
    IN  /\ data.ok /\ data.type = "dict" /\ data.proposals_is_list
        /\ \A i \in 1..Len(data.proposals) : RequiredFields \subseteq data.proposals[i].fields

\* Mutant: no fallback, an unparsable content yields an empty object.
ParseInsightsNoFallback(content) ==
    LET data == JsonLoads(content)
    IN  [type |-> IF data.ok THEN data.type ELSE "dict", keys |-> data.keys, summary |-> ""]

\* try: return json.loads(content)  except Exception: return {"summary": content}
ParseInsights(content) ==
    LET data == JsonLoads(content)
    IN  IF data.ok THEN [type |-> data.type, keys |-> data.keys, summary |-> ""]
        ELSE [type |-> "dict", keys |-> {"summary"}, summary |-> content]

\* try: data = json.loads(content); proposals = data.get("proposals");
\*      if isinstance(proposals, list): return proposals
\* except Exception: pass
\* return []
ParseProposals(content) ==
    LET data == JsonLoads(content)
    IN  IF data.ok /\ data.type = "dict" /\ data.proposals_is_list THEN data.proposals
        ELSE <<>>

MaxProposalTrends == 6

WithLevel(entry) ==
    [trend |-> entry.trend, trend_summary |-> entry.trend_summary,
     best_match_product |-> entry.best_match_product, business |-> entry.business,
     similarity |-> entry.similarity, category |-> entry.category,
     keywords |-> entry.keywords, product_summary |-> entry.product_summary,
     coverage_level |-> entry.category]

\* Mutant: the weak entries come first.
ProposalSampleWeakFirst(weak, gap) ==
    LET enriched == [i \in 1..Len(weak) |-> WithLevel(weak[i])]
                    \o [i \in 1..Len(gap) |-> WithLevel(gap[i])]
    IN  SubSeq(enriched, 1, Min(Len(enriched), MaxProposalTrends))

\* enriched[:max_trends]: gap entries first, then weak entries.
ProposalSample(weak, gap) ==
    LET enriched == [i \in 1..Len(gap) |-> WithLevel(gap[i])]
                    \o [i \in 1..Len(weak) |-> WithLevel(weak[i])]
    IN  SubSeq(enriched, 1, Min(Len(enriched), MaxProposalTrends))

(***************************************************************************)
(* Coverage Aggregator                                                     *)
(***************************************************************************)
MaxOpportunities == 8
MaxConfidence == 8
MaxThemes == 10

\* Mutant: x goes before the entries of equal rank.
RECURSIVE InsertDescBeforeEqual(_, _)
InsertDescBeforeEqual(x, sorted) ==
    IF sorted = <<>> THEN <<x>>
    ELSE IF Head(sorted).rank > x.rank
         THEN <<Head(sorted)>> \o InsertDescBeforeEqual(x, Tail(sorted))
         ELSE <<x>> \o sorted

\* Stable insertion of x into a sequence sorted by descending rank.
RECURSIVE InsertDesc(_, _)
InsertDesc(x, sorted) ==
    IF sorted = <<>> THEN <<x>>
    ELSE IF Head(sorted).rank >= x.rank
         THEN <<Head(sorted)>> \o InsertDesc(x, Tail(sorted))
         ELSE <<x>> \o sorted

\* sorted(items, key=rank, reverse=True) on [rank, item] pairs: stable.
RECURSIVE SortDesc(_)
SortDesc(pairs) ==
    IF pairs = <<>> THEN <<>>
    ELSE InsertDesc(pairs[Len(pairs)], SortDesc(SubSeq(pairs, 1, Len(pairs) - 1)))

Take(seq, n) == SubSeq(seq, 1, Min(Len(seq), n))

CoverageSummary(buckets) ==
    LET sum   == Len(buckets["covered"]) + Len(buckets["weak"]) + Len(buckets["gap"])
        total == IF sum = 0 THEN 1 ELSE sum
    IN  [c \in Categories |->
            [count   |-> Len(buckets[c]),
             percent |-> RoundDiv(Len(buckets[c]) * 1000, total)]]   \* tenths of a percent

\* Counter over the keywords of the gap entries, most_common(10).
RECURSIVE Distinct(_)
Distinct(seq) ==
    IF seq = <<>> THEN <<>>
    ELSE LET front == Distinct(SubSeq(seq, 1, Len(seq) - 1))
         IN  IF seq[Len(seq)] \in Range(front) THEN front ELSE Append(front, seq[Len(seq)])

TopGapThemes(gap) ==
    LET kws   == FilterNone(Concat([i \in 1..Len(gap) |-> gap[i].keywords]))
        keys  == Distinct(kws)
        pairs == [i \in 1..Len(keys) |->
                    [rank |-> Len(SelectSeq(kws, LAMBDA k : k = keys[i])), item |-> keys[i]]]
    IN  Take(SortDesc(pairs), MaxThemes)

\* Mutant: every gap entry gets a note.
OpportunityMapUncut(gap) ==
    [i \in 1..Len(gap) |->
        [trend              |-> gap[i].trend,
         best_match_product |-> gap[i].best_match_product,
         business           |-> gap[i].business,
         similarity         |-> gap[i].similarity,
         emphasis           |-> IF gap[i].keywords = <<>> THEN <<"new proof points">>
                                ELSE gap[i].keywords]]

OpportunityMap(gap) ==
    [i \in 1..Min(Len(gap), MaxOpportunities) |->
        [trend              |-> gap[i].trend,
         best_match_product |-> gap[i].best_match_product,
         business           |-> gap[i].business,
         similarity         |-> gap[i].similarity,
         emphasis           |-> IF gap[i].keywords = <<>> THEN <<"new proof points">>
                                ELSE gap[i].keywords]]

TrendConfidence(alignment) ==
    LET pairs  == [i \in 1..Len(alignment) |->
                     [rank |-> alignment[i].coverage_score, item |-> alignment[i]]]
        sorted == Take(SortDesc(pairs), MaxConfidence)
    IN  [i \in 1..Len(sorted) |-> sorted[i].item]

(***************************************************************************)
(* Catalog statistics                                                      *)
(***************************************************************************)
_description_quality(flat) ==
    LET empty == Len(SelectSeq(flat, LAMBDA p : p.description = ""))
        total == IF Len(flat) = 0 THEN 1 ELSE Len(flat)
    IN  [total_products         |-> Len(flat),
         empty_descriptions     |-> empty,
         \* hundredths of a percent
         empty_descriptions_pct |-> IF Len(flat) = 0 THEN 0
                                    ELSE RoundDiv(empty * 10000, total)]

_catalog_stats(bs, flat) ==
    LET names == {flat[i].business : i \in 1..Len(flat)}
    IN  [total_products        |-> Len(flat),
         total_businesses      |->
             Cardinality({FirstTruthy(<<bs[i].name, bs[i].company_name>>) : i \in 1..Len(bs)}),
         products_per_business |->
             [b \in names |-> Len(SelectSeq(flat, LAMBDA p : p.business = b))]]

\* Stable insertion of x into an ascending sequence (prices.sort()).
RECURSIVE InsertAsc(_, _)
InsertAsc(x, sorted) ==
    IF sorted = <<>> THEN <<x>>
    ELSE IF Head(sorted) <= x THEN <<Head(sorted)>> \o InsertAsc(x, Tail(sorted))
    ELSE <<x>> \o sorted

RECURSIVE SortAsc(_)
SortAsc(seq) == IF seq = <<>> THEN <<>> ELSE InsertAsc(Head(seq), SortAsc(Tail(seq)))

RECURSIVE Sum(_)
Sum(seq) == IF seq = <<>> THEN 0 ELSE Head(seq) + Sum(Tail(seq))

\* round(x, 2) of a price.
Round2(v) == RoundDiv(v, PriceScale \div 100) * (PriceScale \div 100)

\* Mutant: linear interpolation between the two neighbouring ranks.
QuantileInterpolated(prices, num) ==
    LET pos == num * (Len(prices) - 1)
        lo  == prices[pos \div 4 + 1]
        hi  == prices[Min(pos \div 4 + 2, Len(prices))]
    IN  lo + ((hi - lo) * (pos % 4)) \div 4

\* prices[int(q * (len(prices) - 1))] for q = num/4 (the list is 0-based).
Quantile(prices, num) == prices[(num * (Len(prices) - 1)) \div 4 + 1]

\* Mutant: the high band is tested first.
PriceBucketHighFirst(value, q1, q3) ==
    IF value >= q3 THEN "high" ELSE IF value <= q1 THEN "low" ELSE "mid"

PriceBucket(value, q1, q3) ==
    IF value <= q1 THEN "low" ELSE IF value >= q3 THEN "high" ELSE "mid"

ParsedPrices(flat) ==
    LET priced == SelectSeq(flat, LAMBDA p : p.price_numeric.some)
    IN  [i \in 1..Len(priced) |-> priced[i].price_numeric.value]

_pricing_analysis(flat) ==
    LET prices == SortAsc(ParsedPrices(flat))
        q1     == Quantile(prices, 1)
        q3     == Quantile(prices, 3)
    IN  IF prices = <<>> THEN [has_pricing |-> FALSE]
        ELSE [has_pricing   |-> TRUE,
              avg_price     |-> RoundDiv(Sum(prices), Len(prices) * (PriceScale \div 100))
                                  * (PriceScale \div 100),
              min_price     |-> Round2(prices[1]),
              max_price     |-> Round2(prices[Len(prices)]),
              q1            |-> Round2(q1),
              q3            |-> Round2(q3),
              price_buckets |->
                  [b \in {"low", "mid", "high"} |->
                      Len(SelectSeq(prices, LAMBDA v : PriceBucket(v, q1, q3) = b))]]

EmptyDescriptions == "A large portion of products lack descriptions."
WidePriceSpread == "Pricing spans wide bands."
LowCoverage == "Detected market trends with low coverage."

\* Mutant: the description test is `>= 40`.
OpportunitySummaryInclusive(description_stats, pricing_stats, alignment) ==
    LET gaps == SelectSeq(alignment, LAMBDA a : a.status = "gap")
    IN  (IF description_stats.empty_descriptions_pct >= 4000
         THEN <<EmptyDescriptions>> ELSE <<>>)
        \o (IF pricing_stats.has_pricing
               /\ pricing_stats.max_price - pricing_stats.min_price > 100 * PriceScale
            THEN <<WidePriceSpread>> ELSE <<>>)
        \o (IF gaps # <<>> THEN <<LowCoverage>> ELSE <<>>)

\* empty_descriptions_pct is in hundredths of a percent.
_opportunity_summary(description_stats, pricing_stats, alignment) ==
    LET gaps == SelectSeq(alignment, LAMBDA a : a.status = "gap")
    IN  (IF description_stats.empty_descriptions_pct > 4000
         THEN <<EmptyDescriptions>> ELSE <<>>)
        \o (IF pricing_stats.has_pricing
               /\ pricing_stats.max_price - pricing_stats.min_price > 100 * PriceScale
            THEN <<WidePriceSpread>> ELSE <<>>)
        \o (IF gaps # <<>> THEN <<LowCoverage>> ELSE <<>>)

CatalogReport(bs, ts) ==
    LET flat      == _flatten_products(bs)
        alignment == _simple_trend_alignment(flat, ts)
        quality   == _description_quality(flat)
        pricing   == _pricing_analysis(flat)
    IN  [catalog_stats       |-> _catalog_stats(bs, flat),
         pricing_analysis    |-> pricing,
         description_quality |-> quality,
         trend_alignment     |-> alignment,
         opportunity_summary |-> _opportunity_summary(quality, pricing, alignment)]

NoReport ==
    [catalog_stats       |-> _catalog_stats(<<>>, <<>>),
     pricing_analysis    |-> [has_pricing |-> FALSE],
     description_quality |-> _description_quality(<<>>),
     trend_alignment     |-> <<>>,
     opportunity_summary |-> <<>>]

(***************************************************************************)
(* State of a request                                                      *)
(***************************************************************************)
NoInsights == [type |-> "", keys |-> {}, summary |-> ""]

NoResult ==
    [returned           |-> FALSE,
     similarity_map     |-> <<>>,
     coverage           |-> EmptyBuckets,
     insights           |-> NoInsights,
     coverage_summary   |-> CoverageSummary(EmptyBuckets),
     top_gap_themes     |-> <<>>,
     product_proposals  |-> <<>>,
     opportunity_map    |-> <<>>,
     action_plan        |-> <<>>,
     trend_confidence   |-> <<>>,
     catalog_report     |-> NoReport]

NoResponse == [status |-> 0, success |-> FALSE, has_analysis |-> FALSE, message |-> ""]

NotAList == [is_list |-> FALSE, items |-> <<>>]

AsList(items) == [is_list |-> TRUE, items |-> items]

NoPayload == [businesses |-> NotAList, trends |-> NotAList, generate_proposals |-> FALSE]

PayloadBusinesses == {NotAList} \cup {AsList(b) : b \in BusinessInputs}

PayloadTrends == {NotAList} \cup {AsList(t) : t \in TrendInputs}

NoProbe == [op |-> "", score |-> 0, category |-> ""]

Idle ==
    /\ via = ""
    /\ businesses = <<>>
    /\ trends = <<>>
    /\ generate = FALSE
    /\ catalog_report = NoReport
    /\ product_vectors = <<>>
    /\ trend_vectors = <<>>
    /\ similarity_map = <<>>
    /\ coverage_buckets = EmptyBuckets
    /\ insights = NoInsights
    /\ product_proposals = <<>>
    /\ calls = <<>>
    /\ invoked = 0
    /\ exc = ""
    /\ result = NoResult
    /\ payload = NoPayload
    /\ response = NoResponse

Init ==
    /\ SIMILARITY_THRESHOLDS \in DeployedConfigs
    /\ api_key \in BOOLEAN
    /\ client = FALSE
    /\ pc = "idle"
    /\ probe = NoProbe
    /\ Idle

\* The frame of run_gap_analysis is gone once it returns or raises.
DropLocals ==
    /\ catalog_report' = NoReport
    /\ product_vectors' = <<>>
    /\ trend_vectors' = <<>>
    /\ similarity_map' = <<>>
    /\ coverage_buckets' = EmptyBuckets
    /\ insights' = NoInsights
    /\ product_proposals' = <<>>

Raise(e) ==
    /\ exc' = e
    /\ pc' = "raised"
    /\ DropLocals

\* The log of external calls: the request sent and what came back (the content of a
\* completion, "vectors" for an embedding batch, "error" when the call failed).
Call(op, input, output) == Append(calls, [op |-> op, input |-> input, output |-> output])


(***************************************************************************)
(* Entry points                                                            *)
(***************************************************************************)
\* The environment of the process changes between two requests.
SetEnv ==
    /\ pc = "idle"
    /\ api_key' = ~api_key
    /\ UNCHANGED <<SIMILARITY_THRESHOLDS, client, pc, probe, reqvars>>

NonEmptyList(v) == v.is_list /\ v.items # <<>>

Start(how, bs, ts, g) ==
    /\ via' = how
    /\ businesses' = bs
    /\ trends' = ts
    /\ generate' = g
    /\ invoked' = invoked + 1
    /\ pc' = "catalog"

\* api_gap_analysis: one of the two list checks fails.
HttpReject ==
    /\ pc = "idle"
    /\ \E pb \in PayloadBusinesses, pt \in PayloadTrends, g \in BOOLEAN :
         /\ ~NonEmptyList(pb) \/ ~NonEmptyList(pt)
         /\ payload' = [businesses |-> pb, trends |-> pt, generate_proposals |-> g]
         /\ response' = [status |-> 400, success |-> FALSE, has_analysis |-> FALSE,
                         message |-> IF ~NonEmptyList(pb)
                                     THEN "Provide businesses as a non-empty list."
                                     ELSE "Provide trends as a non-empty list."]
    /\ via' = "http"
    /\ pc' = "responded"
    /\ UNCHANGED <<SIMILARITY_THRESHOLDS, probe, api_key, client, businesses, trends, generate,
                   catalog_report, product_vectors, trend_vectors, similarity_map,
                   coverage_buckets, insights, product_proposals, calls, invoked, exc,
                   result>>

\* api_gap_analysis: the list checks pass and run_gap_analysis is called.
HttpInvoke ==
    /\ pc = "idle"
    /\ \E pb \in PayloadBusinesses, pt \in PayloadTrends, g \in BOOLEAN :
         /\ NonEmptyList(pb) /\ NonEmptyList(pt)
         /\ payload' = [businesses |-> pb, trends |-> pt, generate_proposals |-> g]
         /\ Start("http", pb.items, pt.items, g)
    /\ UNCHANGED <<SIMILARITY_THRESHOLDS, probe, api_key, client, catalog_report,
                   product_vectors, trend_vectors, similarity_map, coverage_buckets,
                   insights, product_proposals, calls, exc, result, response>>

\* run_gap_analysis called as a library function (no auto_trend_keywords), with the
\* arguments the HTTP handler never forwards: an empty list.
DirectCall ==
    /\ pc = "idle"
    /\ \E bs \in BusinessInputs, ts \in TrendInputs, g \in BOOLEAN :
         /\ bs = <<>> \/ ts = <<>>
         /\ Start("direct", bs, ts, g)
    /\ UNCHANGED <<SIMILARITY_THRESHOLDS, probe, api_key, client, catalog_report,
                   product_vectors, trend_vectors, similarity_map, coverage_buckets,
                   insights, product_proposals, calls, exc, result, payload, response>>

(***************************************************************************)
(* run_gap_analysis                                                        *)
(***************************************************************************)
fixed == <<SIMILARITY_THRESHOLDS, probe, api_key, via, businesses, trends, generate,
           invoked, payload, response, result>>

\* flat_products, catalog_report (lines 639-651)
BuildCatalogReport ==
    /\ pc = "catalog"
    /\ IF AlignRaises(trends)
       THEN /\ Raise("AttributeError")
       ELSE /\ catalog_report' = CatalogReport(businesses, trends)
            /\ pc' = "products"
            /\ UNCHANGED <<product_vectors, trend_vectors, similarity_map,
                           coverage_buckets, insights, product_proposals, exc>>
    /\ UNCHANGED <<fixed, client, calls>>

\* _get_client raises when no client is cached and the key is not configured.
ClientUnavailable == ~client /\ ~api_key

Texts(rows) == [i \in 1..Len(rows) |-> rows[i].text]

ProductVector(row, vec) ==
    [business |-> row.business, product |-> row.product,
     description |-> row.description, vector |-> vec]

TrendVector(row, vec) ==
    [name |-> row.name, insight |-> row.insight, evidence |-> row.evidence,
     vector |-> vec]

GotProductVectors(vs) ==
    /\ product_vectors' =
         [i \in 1..Len(vs) |-> ProductVector(ProductRows(businesses)[i], vs[i])]
    /\ pc' = "trends"
    /\ UNCHANGED <<catalog_report, trend_vectors, similarity_map, coverage_buckets,
                   insights, product_proposals>>

GotTrendVectors(vs) ==
    /\ trend_vectors' = [i \in 1..Len(vs) |-> TrendVector(TrendRows(trends)[i], vs[i])]
    /\ pc' = "validate"
    /\ UNCHANGED <<catalog_report, product_vectors, similarity_map, coverage_buckets,
                   insights, product_proposals>>

GotVectors(op, vs) ==
    IF op = "embed_products" THEN GotProductVectors(vs) ELSE GotTrendVectors(vs)

\* Mutant: a failed embedding call is issued again.
EmbedWithRetry(op, texts) ==
    \/ /\ ClientUnavailable
       /\ Raise("RuntimeError")
       /\ UNCHANGED <<client, calls>>
    \/ /\ ~ClientUnavailable
       /\ client' = TRUE
       /\ \/ /\ calls' = Call(op, texts, "error")
             /\ UNCHANGED <<pc, exc, catalog_report, product_vectors, trend_vectors,
                            similarity_map, coverage_buckets, insights, product_proposals>>
          \/ /\ calls' = Call(op, texts, "vectors")
             /\ \E m \in EmbeddingModels :
                   GotVectors(op, [i \in 1..Len(texts) |-> Embedding(m, texts[i])])
             /\ exc' = exc

\* _embed(texts) of a non-empty batch: the three outcomes.
Embed(op, texts) ==
    \/ /\ ClientUnavailable
       /\ Raise("RuntimeError")
       /\ UNCHANGED <<client, calls>>
    \/ /\ ~ClientUnavailable
       /\ client' = TRUE
       /\ \/ /\ calls' = Call(op, texts, "error")
             /\ Raise("APIError")
          \/ /\ calls' = Call(op, texts, "vectors")
             /\ \E m \in EmbeddingModels :
                   GotVectors(op, [i \in 1..Len(texts) |-> Embedding(m, texts[i])])
             /\ exc' = exc

_prepare_product_vectors ==
    /\ pc = "products"
    /\ IF ProductRows(businesses) = <<>>
       THEN /\ pc' = "trends"
            /\ UNCHANGED <<client, calls, exc, catalog_report, product_vectors,
                           trend_vectors, similarity_map, coverage_buckets, insights,
                           product_proposals>>
       ELSE Embed("embed_products", Texts(ProductRows(businesses)))
    /\ UNCHANGED fixed

_prepare_trend_vectors ==
    /\ pc = "trends"
    /\ IF TrendRows(trends) = <<>>
       THEN /\ pc' = "validate"
            /\ UNCHANGED <<client, calls, exc, catalog_report, product_vectors,
                           trend_vectors, similarity_map, coverage_buckets, insights,
                           product_proposals>>
       ELSE Embed("embed_trends", Texts(TrendRows(trends)))
    /\ UNCHANGED fixed

\* if not product_vectors or not trend_vectors: raise ValueError (lines 656-657)
Validate ==
    /\ pc = "validate"
    /\ IF product_vectors = <<>> \/ trend_vectors = <<>>
       THEN Raise("ValueError")
       ELSE /\ pc' = "match"
            /\ UNCHANGED <<catalog_report, product_vectors, trend_vectors,
                           similarity_map, coverage_buckets, insights,
                           product_proposals, exc>>
    /\ UNCHANGED <<fixed, client, calls>>

\* One iteration of `for trend in trend_vectors` (lines 662-695).
MatchTrend ==
    /\ pc = "match"
    /\ LET i     == Len(similarity_map) + 1
           entry == MakeEntry(trend_vectors[i], product_vectors)
       IN  /\ similarity_map' = Append(similarity_map, entry)
           /\ coverage_buckets' = AddToBucket(coverage_buckets, entry)
           /\ pc' = IF i = Len(trend_vectors) THEN "reason" ELSE "match"
    /\ UNCHANGED <<fixed, client, calls, exc, catalog_report, product_vectors,
                   trend_vectors, insights, product_proposals>>

\* product_vectors and trend_vectors are not read after the matching loop: the
\* model forgets them once the next statement has run.
GotInsights(content) ==
    /\ insights' = ParseInsights(content)
    /\ pc' = "propose"
    /\ product_vectors' = <<>>
    /\ trend_vectors' = <<>>
    /\ UNCHANGED <<catalog_report, similarity_map, coverage_buckets, product_proposals>>

GotProposals(content) ==
    /\ product_proposals' = ParseProposals(content)
    /\ pc' = "assemble"
    /\ UNCHANGED <<catalog_report, product_vectors, trend_vectors, similarity_map,
                   coverage_buckets, insights>>

GotContent(op, content) ==
    IF op = "chat_insights" THEN GotInsights(content) ELSE GotProposals(content)

\* chat.completions.create: the three outcomes of a completion request.
Chat(op, input, Contents) ==
    \/ /\ ClientUnavailable
       /\ Raise("RuntimeError")
       /\ UNCHANGED <<client, calls>>
    \/ /\ ~ClientUnavailable
       /\ client' = TRUE
       /\ \/ /\ calls' = Call(op, input, "error")
             /\ Raise("APIError")
          \/ \E content \in Contents :
                /\ calls' = Call(op, input, content)
                /\ GotContent(op, content)
                /\ exc' = exc

_reason_over_gaps ==
    /\ pc = "reason"
    /\ IF similarity_map = <<>>
       THEN /\ insights' = [type |-> "dict",
                            keys |-> {"summary", "actions", "priority_matrix"},
                            summary |-> "No valid comparison could be made."]
            /\ pc' = "propose"
            /\ product_vectors' = <<>>
            /\ trend_vectors' = <<>>
            /\ UNCHANGED <<client, calls, exc, catalog_report, similarity_map,
                           coverage_buckets, product_proposals>>
       ELSE Chat("chat_insights", similarity_map, InsightContents)
    /\ UNCHANGED fixed

\* Mutant: the proposals are requested whatever generate_product_proposals says.
ProposeRegardless ==
    /\ pc = "propose"
    /\ IF ProposalSample(coverage_buckets["weak"], coverage_buckets["gap"]) = <<>>
       THEN /\ product_proposals' = <<>>
            /\ pc' = "assemble"
            /\ UNCHANGED <<client, calls, exc, catalog_report, product_vectors,
                           trend_vectors, similarity_map, coverage_buckets, insights>>
       ELSE Chat("chat_proposals",
                 ProposalSample(coverage_buckets["weak"], coverage_buckets["gap"]),
                 ProposalContents)
    /\ UNCHANGED fixed

\* product_proposals = _propose_product_extensions(...) if generate_product_proposals
\*                     else []   (lines 714-718)
_propose_product_extensions ==
    /\ pc = "propose"
    /\ IF ~generate \/ ProposalSample(coverage_buckets["weak"], coverage_buckets["gap"]) = <<>>
       THEN /\ product_proposals' = <<>>
            /\ pc' = "assemble"
            /\ UNCHANGED <<client, calls, exc, catalog_report, product_vectors,
                           trend_vectors, similarity_map, coverage_buckets, insights>>
       ELSE Chat("chat_proposals",
                 ProposalSample(coverage_buckets["weak"], coverage_buckets["gap"]),
                 ProposalContents)
    /\ UNCHANGED fixed

\* The returned dict (lines 698-755).
Assemble ==
    [returned           |-> TRUE,
     similarity_map     |-> similarity_map,
     coverage           |-> coverage_buckets,
     insights           |-> insights,
     coverage_summary   |-> CoverageSummary(coverage_buckets),
     top_gap_themes     |-> TopGapThemes(coverage_buckets["gap"]),
     product_proposals  |-> product_proposals,
     opportunity_map    |-> OpportunityMap(coverage_buckets["gap"]),
     action_plan        |-> catalog_report.opportunity_summary,
     trend_confidence   |-> TrendConfidence(catalog_report.trend_alignment),
     catalog_report     |-> catalog_report]

Return ==
    /\ pc = "assemble"
    /\ result' = Assemble
    /\ pc' = "returned"
    /\ DropLocals
    /\ UNCHANGED <<SIMILARITY_THRESHOLDS, probe, api_key, client, via, businesses, trends,
                   generate, calls, invoked, exc, payload, response>>

(***************************************************************************)
(* api_gap_analysis: the except clauses and the final jsonify              *)
(***************************************************************************)
\* Mutant: every exception is answered with a 500.
StatusAlways500(e) == 500

\* except ValueError: 400; except RuntimeError: 500; except Exception: 500
StatusOf(e) == IF e = "ValueError" THEN 400 ELSE 500

MessageOf(e) ==
    CASE e = "ValueError"   ->
            "Insufficient data. Provide at least one product and one trend entry."
      [] e = "RuntimeError" -> "OPENAI_API_KEY is not configured."
      [] OTHER              -> "Gap analysis failed."

HttpRespond ==
    /\ via = "http"
    /\ pc \in {"returned", "raised"}
    /\ response' =
         IF pc = "returned"
         THEN [status |-> 200, success |-> TRUE, has_analysis |-> TRUE, message |-> ""]
         ELSE [status |-> StatusOf(exc), success |-> FALSE, has_analysis |-> FALSE,
               message |-> MessageOf(exc)]
    /\ pc' = "responded"
    /\ UNCHANGED <<SIMILARITY_THRESHOLDS, probe, api_key, client, via, businesses, trends,
                   generate, catalog_report, product_vectors, trend_vectors,
                   similarity_map, coverage_buckets, insights, product_proposals, calls,
                   invoked, exc, result, payload>>

\* The request is over; the process waits for the next one.
Finish ==
    /\ \/ via = "http" /\ pc = "responded"
       \/ via = "direct" /\ pc \in {"returned", "raised"}
    /\ pc' = "idle"
    /\ via' = ""
    /\ businesses' = <<>>
    /\ trends' = <<>>
    /\ generate' = FALSE
    /\ calls' = <<>>
    /\ invoked' = 0
    /\ exc' = ""
    /\ result' = NoResult
    /\ payload' = NoPayload
    /\ response' = NoResponse
    /\ DropLocals
    /\ UNCHANGED <<SIMILARITY_THRESHOLDS, probe, api_key, client>>

Next ==
    \/ SetEnv
    \/ HttpReject
    \/ HttpInvoke
    \/ DirectCall
    \/ BuildCatalogReport
    \/ _prepare_product_vectors
    \/ _prepare_trend_vectors
    \/ Validate
    \/ MatchTrend
    \/ _reason_over_gaps
    \/ _propose_product_extensions
    \/ Return
    \/ HttpRespond
    \/ Finish

Spec == Init /\ [][Next]_vars

(***************************************************************************)
(* _categorize on its own: thresholds from the configuration, scores       *)
(* around every configured threshold.                                      *)
(***************************************************************************)
ProbeDelta == 4

ProbeScores ==
    {0 - ScoreScale, 0, ScoreScale}
    \cup {th.covered * RoundUnit + d : th \in ThresholdConfigs, d \in (0 - ProbeDelta)..ProbeDelta}
    \cup {th.weak * RoundUnit + d : th \in ThresholdConfigs, d \in (0 - ProbeDelta)..ProbeDelta}

InitCategorize ==
    /\ SIMILARITY_THRESHOLDS \in ThresholdConfigs
    /\ api_key = TRUE
    /\ client = FALSE
    /\ pc = "idle"
    /\ probe = NoProbe
    /\ Idle

Categorize ==
    /\ \E s \in ProbeScores :
         probe' = [op |-> "_categorize", score |-> s, category |-> _categorize(s)]
    /\ UNCHANGED <<SIMILARITY_THRESHOLDS, api_key, client, pc, reqvars>>

NextCategorize == Categorize

SpecCategorize == InitCategorize /\ [][NextCategorize]_vars

(***************************************************************************)
(* _cosine on its own: every pair of vectors with small integer components.*)
(***************************************************************************)
MaxComponent == 2

ProbeVectors ==
    {<<x, y>> : x \in (0 - MaxComponent)..MaxComponent, y \in (0 - MaxComponent)..MaxComponent}

InitCosine ==
    /\ SIMILARITY_THRESHOLDS \in DeployedConfigs
    /\ api_key = TRUE
    /\ client = FALSE
    /\ pc = "idle"
    /\ \E a \in ProbeVectors, b \in ProbeVectors :
         probe = [op |-> "vectors", a |-> a, b |-> b, ab |-> Zero32, ba |-> Zero32]
    /\ Idle

Cosine ==
    /\ probe.op = "vectors"
    /\ probe' = [probe EXCEPT !.op = "_cosine",
                              !.ab = Cosine32(probe.a, probe.b),
                              !.ba = Cosine32(probe.b, probe.a)]
    /\ UNCHANGED <<SIMILARITY_THRESHOLDS, api_key, client, pc, reqvars>>

NextCosine == Cosine

SpecCosine == InitCosine /\ [][NextCosine]_vars

(***************************************************************************)
(* The catalog report on its own: _parse_price on every short price text,  *)
(* and the report of catalogs that differ in prices, in empty descriptions *)
(* and in the trends they are aligned with; the ranking of the alignment   *)
(* (trend_confidence) is taken with the report.                            *)
(***************************************************************************)
MaxPriceLen == 3
MaxPrices == 4
MaxCatalog == 10

NumericLexemes == {"10", "9.999"}

PriceLexemes == {" ", "From", "$", "LL", "abc", "1,200"} \cup NumericLexemes

\* Texts with at most one numeric literal.
PriceTexts ==
    {t \in SeqsUpTo(PriceLexemes, MaxPriceLen) :
        Len(SelectSeq(t, LAMBDA x : x \in NumericLexemes)) <= 1}

PriceSamples ==
    {<<>>, <<"abc">>, <<"10">>, <<"20">>, <<"$", "30">>, <<"From", " ", "40">>, <<"9.999">>}

Shop(products) == Business("Shop", "", products)

PricedCatalogs ==
    {<<Shop([i \in 1..Len(ps) |-> Priced(Widget, ps[i])])>> :
        ps \in SeqsUpTo(PriceSamples, MaxPrices)}

PricePairs ==
    {<<<<>>, <<>>>>, <<<<"10">>, <<"110">>>>, <<<<"$", "10">>, <<"150">>>>,
     <<<<"9.999">>, <<"110">>>>}

\* `total` products, the first `empty` of them without description, the first two
\* with the prices of `pair`.
CountedCatalog(empty, total, pair) ==
    <<Shop([i \in 1..total |->
              Priced(Product("Widget", IF i <= empty THEN "" ELSE "a smart widget for homes",
                             <<"smart", "home">>),
                     IF i <= 2 THEN pair[i] ELSE <<>>)])>>

CountedCatalogs ==
    {CountedCatalog(empty, total, pair) :
        empty \in 0..MaxCatalog, total \in 1..MaxCatalog, pair \in PricePairs}

AlignedTrends ==
    {<<>>, <<Flat(SmartHome)>>, <<Flat(GreenTech)>>, <<Flat(SmartHome), Flat(GreenTech)>>}

MaxTokens == 23
MaxAligned == 9

\* The catalog the trends are aligned with: its vocabulary is widget, gadget, smart
\* and home.
LexicalCatalog == <<Shop(<<Widget, Gadget>>)>>

\* A trend of 1 + n tokens: its label and n keywords, the first m of them in the
\* vocabulary of the catalog.
CountedTrend(label, m, n) ==
    Raw(label, "", "", Repeat("smart", m) \o Repeat("solar", n - m))

\* One trend with every number of tokens and of matches; trends without a label or
\* without a token.
LexicalTrends ==
    {<<Flat(CountedTrend(label, c[1], c[2]))>> :
        label \in {"Widget", "trend"},
        c \in {d \in (0..(MaxTokens - 1)) \X (0..(MaxTokens - 1)) : d[1] <= d[2]}}
    \cup {<<Flat(Untitled)>>, <<Flat(AiAgents)>>, <<Flat(Raw(" ", "", "", <<>>))>>,
          <<Flat(Untitled), Flat(SmartHome), Flat(Raw(" ", "", "", <<>>))>>}

\* Trends of lexical score 0.8, 0.5, 0 and 0.
RankedKinds ==
    {Flat(SmartHome), Flat(Raw("Gadget", "", "", <<"solar">>)), Flat(GreenTech),
     Flat(Raw("ai agents", "", "", <<>>))}

RankedTrends ==
    {ts \in {Repeat(x, i) \o Repeat(y, j) :
                x \in RankedKinds, y \in RankedKinds,
                i \in 1..MaxAligned, j \in 0..(MaxAligned - 1)} :
        Len(ts) <= MaxAligned}

InitCatalog ==
    /\ SIMILARITY_THRESHOLDS \in DeployedConfigs
    /\ api_key = TRUE
    /\ client = FALSE
    /\ pc = "idle"
    /\ \/ \E t \in PriceTexts : probe = [op |-> "text", text |-> t]
       \/ \E bs \in PricedCatalogs :
             probe = [op |-> "catalog", businesses |-> bs, trends |-> <<>>]
       \/ \E bs \in CountedCatalogs, ts \in AlignedTrends :
             probe = [op |-> "catalog", businesses |-> bs, trends |-> ts]
       \/ \E ts \in LexicalTrends \cup RankedTrends :
             probe = [op |-> "catalog", businesses |-> LexicalCatalog, trends |-> ts]
    /\ Idle

ParsePrice ==
    /\ probe.op = "text"
    /\ probe' = [op |-> "_parse_price", text |-> probe.text,
                 parsed |-> _parse_price(probe.text)]
    /\ UNCHANGED <<SIMILARITY_THRESHOLDS, api_key, client, pc, reqvars>>

Report ==
    /\ probe.op = "catalog"
    /\ probe' = [op         |-> "catalog_report",
                 businesses |-> probe.businesses,
                 trends     |-> probe.trends,
                 flat       |-> _flatten_products(probe.businesses),
                 rows       |-> ProductRows(probe.businesses),
                 report     |-> CatalogReport(probe.businesses, probe.trends),
                 trend_confidence |->
                     TrendConfidence(CatalogReport(probe.businesses,
                                                   probe.trends).trend_alignment)]
    /\ UNCHANGED <<SIMILARITY_THRESHOLDS, api_key, client, pc, reqvars>>

NextCatalog == ParsePrice \/ Report

SpecCatalog == InitCatalog /\ [][NextCatalog]_vars

(***************************************************************************)
(* The Text Normalizer on its own: each flattener called twice on the same *)
(* arguments.                                                              *)
(***************************************************************************)
MaxCatalogs == 2

InitNormalizer ==
    /\ SIMILARITY_THRESHOLDS \in DeployedConfigs
    /\ api_key = TRUE
    /\ client = FALSE
    /\ pc = "idle"
    /\ \E bs \in SeqsUpTo(Businesses, MaxCatalogs), ts \in TrendInputs :
         probe = [op |-> "arguments", given_businesses |-> bs, given_trends |-> ts,
                  businesses |-> bs, trends |-> ts]
    /\ Idle

\* Neither flattener assigns to its argument or to anything reachable from it.
FlattenTwice ==
    /\ probe.op = "arguments"
    /\ probe' = [op               |-> "normalized",
                 given_businesses |-> probe.given_businesses,
                 given_trends     |-> probe.given_trends,
                 businesses       |-> probe.businesses,
                 trends           |-> probe.trends,
                 products_first   |-> _flatten_products(probe.businesses),
                 products_second  |-> _flatten_products(probe.businesses),
                 trends_first     |-> _flatten_trend_records(probe.trends),
                 trends_second    |-> _flatten_trend_records(probe.trends)]
    /\ UNCHANGED <<SIMILARITY_THRESHOLDS, api_key, client, pc, reqvars>>

NextNormalizer == FlattenTwice

SpecNormalizer == InitNormalizer /\ [][NextNormalizer]_vars

(***************************************************************************)
(* The proposal step on its own: requests with up to MaxSample usable      *)
(* trends, taken where run_gap_analysis has received its insights and is   *)
(* about to evaluate `product_proposals = ...`.  The trend list is a run of *)
(* one trend followed by a run of another; the catalog was embedded by      *)
(* model "b" and the trends by any model.                                   *)
(***************************************************************************)
MaxSample == 7

LongTrendInputs ==
    {ts \in {Repeat(x, i) \o Repeat(y, j) :
                x \in {Flat(SmartHome), Flat(AiAgents), Flat(GreenTech)},
                y \in {Flat(SmartHome), Flat(AiAgents), Flat(GreenTech)},
                i \in 1..MaxSample, j \in 0..(MaxSample - 1)} :
        Len(ts) <= MaxSample}

\* The vectors of a batch answered by embedding model m.
ProductVectors(m, bs) ==
    [i \in 1..Len(ProductRows(bs)) |->
        ProductVector(ProductRows(bs)[i], Embedding(m, ProductRows(bs)[i].text))]

TrendVectors(m, ts) ==
    [i \in 1..Len(TrendRows(ts)) |->
        TrendVector(TrendRows(ts)[i], Embedding(m, TrendRows(ts)[i].text))]

\* The matching loop run to its end.
MatchAll(tvs, pvs) == [i \in 1..Len(tvs) |-> MakeEntry(tvs[i], pvs)]

RECURSIVE BucketsOf(_)
BucketsOf(map) ==
    IF map = <<>> THEN EmptyBuckets
    ELSE AddToBucket(BucketsOf(SubSeq(map, 1, Len(map) - 1)), map[Len(map)])

InitProposal ==
    /\ SIMILARITY_THRESHOLDS \in DeployedConfigs
    /\ api_key = TRUE
    /\ client = TRUE
    /\ pc = "propose"
    /\ probe = NoProbe
    /\ \E ts \in LongTrendInputs, mt \in EmbeddingModels, g \in BOOLEAN :
         LET bs  == <<Acme>>
             map == MatchAll(TrendVectors(mt, ts), ProductVectors("b", bs))
         IN  /\ via = "http"
             /\ payload = [businesses |-> AsList(bs), trends |-> AsList(ts),
                           generate_proposals |-> g]
             /\ businesses = bs
             /\ trends = ts
             /\ generate = g
             /\ invoked = 1
             /\ catalog_report = CatalogReport(bs, ts)
             /\ product_vectors = <<>>
             /\ trend_vectors = <<>>
             /\ similarity_map = map
             /\ coverage_buckets = BucketsOf(map)
             /\ insights = ParseInsights(InsightContent)
             /\ product_proposals = <<>>
             /\ calls = <<[op |-> "embed_products", input |-> Texts(ProductRows(bs)),
                           output |-> "vectors"],
                          [op |-> "embed_trends", input |-> Texts(TrendRows(ts)),
                           output |-> "vectors"],
                          [op |-> "chat_insights", input |-> map,
                           output |-> InsightContent]>>
    /\ exc = ""
    /\ result = NoResult
    /\ response = NoResponse

NextProposal == _propose_product_extensions \/ Return

SpecProposal == InitProposal /\ [][NextProposal]_vars

(***************************************************************************)
(* Normalization on its own: a trend record with any combination of the    *)
(* five title keys (or a non-dict element, or repeated keywords), alone,    *)
(* after another record, or inside a `results` wrapper, and a business with *)
(* or without a name, taken through to the similarity entries.              *)
(***************************************************************************)
KeyedRecords ==
    {[Raw("", "", "", <<"misc">>) EXCEPT !.trend = a, !.title = b, !.core_concept = c,
                                         !.industry = d, !.name = e] :
        a \in {"", "smart home"}, b \in {"", "ai agents"}, c \in {"", "green energy"},
        d \in {"", "retail"}, e \in {"", "wearables"}}
    \cup {NonDictChild}
    \cup {Raw("smart home", "", "", <<"solar", "solar">>),
          [Raw("smart home", "", "", <<"solar">>) EXCEPT !.semantic_keywords = <<"solar">>]}

MatchedCatalogs == {<<Acme>>, <<Nova>>, <<Nameless>>}

Placements(r) ==
    {<<Flat(r)>>,
     <<Flat(AiAgents), Flat(r)>>,
     <<WithResults(Untitled, TRUE, <<r>>)>>,
     <<WithResults(Untitled, TRUE, <<r, GreenTech>>), Flat(r)>>}

InitTrendRecord ==
    /\ SIMILARITY_THRESHOLDS \in DeployedConfigs
    /\ api_key = TRUE
    /\ client = FALSE
    /\ pc = "idle"
    /\ \E r \in KeyedRecords, bs \in MatchedCatalogs : \E ts \in Placements(r) :
         probe = [op |-> "raw_trends", record |-> r, trends |-> ts, businesses |-> bs]
    /\ Idle

\* The catalog report, then _flatten_trend_records, _prepare_trend_vectors and the
\* matching loop against the products of one business; the request has no report and
\* no entry when the lexical alignment raised on a non-dict element.
NormalizeTrends ==
    /\ probe.op = "raw_trends"
    /\ \E m \in EmbeddingModels :
         probe' = [op         |-> "trend_records",
                   record     |-> probe.record,
                   trends     |-> probe.trends,
                   businesses |-> probe.businesses,
                   flat       |-> _flatten_products(probe.businesses),
                   report     |-> IF AlignRaises(probe.trends) THEN NoReport
                                  ELSE CatalogReport(probe.businesses, probe.trends),
                   normalized |-> _flatten_trend_records(probe.trends),
                   entries    |-> IF AlignRaises(probe.trends) THEN <<>>
                                  ELSE MatchAll(TrendVectors(m, probe.trends),
                                                ProductVectors(m, probe.businesses))]
    /\ UNCHANGED <<SIMILARITY_THRESHOLDS, api_key, client, pc, reqvars>>

NextTrendRecord == NormalizeTrends

SpecTrendRecord == InitTrendRecord /\ [][NextTrendRecord]_vars

(***************************************************************************)
(* run_gap_analysis as a function of its arguments, for a request whose     *)
(* capability calls all succeed (the two embedding batches answered by      *)
(* model m, the insights by a well-formed object) and that asks for no      *)
(* proposals.                                                              *)
(***************************************************************************)
\* Mutant: the coverage summary counts the statuses of the lexical alignment.
RunGapAnalysisLexical(bs, ts, m) ==
    LET report  == CatalogReport(bs, ts)
        map     == MatchAll(TrendVectors(m, ts), ProductVectors(m, bs))
        buckets == BucketsOf(map)
        lexical == [c \in Categories |->
                      SelectSeq(report.trend_alignment,
                                LAMBDA a : a.status = (IF c = "weak" THEN "weak_coverage"
                                                       ELSE c))]
    IN  [returned           |-> TRUE,
         similarity_map     |-> map,
         coverage           |-> buckets,
         insights           |-> ParseInsights(InsightContent),
         coverage_summary   |-> CoverageSummary(lexical),
         top_gap_themes     |-> TopGapThemes(buckets["gap"]),
         product_proposals  |-> <<>>,
         opportunity_map    |-> OpportunityMap(buckets["gap"]),
         action_plan        |-> report.opportunity_summary,
         trend_confidence   |-> TrendConfidence(report.trend_alignment),
         catalog_report     |-> report]

run_gap_analysis(bs, ts, m) ==
    LET report  == CatalogReport(bs, ts)
        map     == MatchAll(TrendVectors(m, ts), ProductVectors(m, bs))
        buckets == BucketsOf(map)
    IN  IF AlignRaises(ts) \/ ProductRows(bs) = <<>> \/ TrendRows(ts) = <<>> THEN NoResult
        ELSE [returned           |-> TRUE,
              similarity_map     |-> map,
              coverage           |-> buckets,
              insights           |-> ParseInsights(InsightContent),
              coverage_summary   |-> CoverageSummary(buckets),
              top_gap_themes     |-> TopGapThemes(buckets["gap"]),
              product_proposals  |-> <<>>,
              opportunity_map    |-> OpportunityMap(buckets["gap"]),
              action_plan        |-> report.opportunity_summary,
              trend_confidence   |-> TrendConfidence(report.trend_alignment),
              catalog_report     |-> report]

(***************************************************************************)
(* The lexical alignment next to the embedding pipeline: two requests that *)
(* differ only in the keywords of a product and of a trend, answered by    *)
(* the same embedding model (which tells a text by its name or title, so   *)
(* both requests get the same vectors); and the aggregates of one request  *)
(* with many trends.                                                       *)
(***************************************************************************)
KeywordChoices == {<<>>, <<"smart">>, <<"solar">>}

Tagged(kws) == <<Business("Acme", "", <<Product("Widget", "a smart widget for homes", kws),
                                        Gadget>>)>>

\* A trend with the given keywords, with (cc = "iot") or without a description part,
\* followed by a second trend.
Keyed(cc, kws) == <<Flat(Raw("smart home", "", cc, kws)), Flat(GreenTech)>>

MaxGaps == 9

\* A run of one trend followed by a run of another.
ManyTrends ==
    {ts \in {Repeat(x, i) \o Repeat(y, j) :
                x \in {Flat(SmartHome), Flat(AiAgents), Flat(GreenTech)},
                y \in {Flat(SmartHome), Flat(AiAgents), Flat(GreenTech)},
                i \in 1..MaxGaps, j \in 0..(MaxGaps - 1)} :
        Len(ts) <= MaxGaps}

InitAlignment ==
    /\ SIMILARITY_THRESHOLDS \in DeployedConfigs
    /\ api_key = TRUE
    /\ client = FALSE
    /\ pc = "idle"
    /\ \/ \E pk1 \in KeywordChoices, pk2 \in KeywordChoices, tk1 \in KeywordChoices,
             tk2 \in KeywordChoices, cc \in {"", "iot"} :
            probe = [op |-> "two_requests",
                     businesses1 |-> Tagged(pk1), trends1 |-> Keyed(cc, tk1),
                     businesses2 |-> Tagged(pk2), trends2 |-> Keyed(cc, tk2)]
       \/ \E ts \in ManyTrends :
            probe = [op |-> "one_request", businesses |-> <<Acme>>, trends |-> ts]
    /\ Idle

RunTwice ==
    /\ probe.op = "two_requests"
    /\ \E m \in EmbeddingModels :
         probe' = [op          |-> "two_results",
                   businesses1 |-> probe.businesses1, trends1 |-> probe.trends1,
                   businesses2 |-> probe.businesses2, trends2 |-> probe.trends2,
                   first       |-> run_gap_analysis(probe.businesses1, probe.trends1, m),
                   second      |-> run_gap_analysis(probe.businesses2, probe.trends2, m)]
    /\ UNCHANGED <<SIMILARITY_THRESHOLDS, api_key, client, pc, reqvars>>

\* One request with up to MaxGaps trends.
RunOnce ==
    /\ probe.op = "one_request"
    /\ \E m \in EmbeddingModels :
         probe' = [op         |-> "one_result",
                   businesses |-> probe.businesses,
                   trends     |-> probe.trends,
                   result     |-> run_gap_analysis(probe.businesses, probe.trends, m)]
    /\ UNCHANGED <<SIMILARITY_THRESHOLDS, api_key, client, pc, reqvars>>

NextAlignment == RunTwice \/ RunOnce

SpecAlignment == InitAlignment /\ [][NextAlignment]_vars

(***************************************************************************)
(* Claims                                                                  *)
(***************************************************************************)
Bucket(map, c) == SelectSeq(map, LAMBDA e : e.category = c)

BucketTotal(buckets) ==
    Len(buckets["covered"]) + Len(buckets["weak"]) + Len(buckets["gap"])

\* C1: the buckets covered/weak/gap are a strict partition of similarity_map: each
\* bucket holds exactly the entries of its category, in the order of similarity_map,
\* and the three lengths sum to the number of trend vectors (the usable trends).
C1_Partition ==
    /\ \A c \in Categories : coverage_buckets[c] = Bucket(similarity_map, c)
    /\ BucketTotal(coverage_buckets) = Len(similarity_map)
    /\ pc = "reason" => BucketTotal(coverage_buckets) = Len(trend_vectors)
    /\ result.returned =>
         /\ \A c \in Categories : result.coverage[c] = Bucket(result.similarity_map, c)
         /\ BucketTotal(result.coverage) = Len(result.similarity_map)
         /\ BucketTotal(result.coverage) = Len(TrendRows(trends))

C1_Witness ==
    /\ result.returned
    /\ Len(result.similarity_map) = 2
    /\ result.coverage["weak"] # <<>>
    /\ result.coverage["gap"] # <<>>

\* C2 as stated: for every configured pair of thresholds, covered iff
\* s >= covered_threshold, gap iff s < weak_threshold, weak otherwise.
C2_AsStated ==
    probe.op = "_categorize" =>
        LET s   == probe.score
            cov == SIMILARITY_THRESHOLDS.covered * RoundUnit
            wk  == SIMILARITY_THRESHOLDS.weak * RoundUnit
        IN  /\ probe.category = "covered" <=> s >= cov
            /\ probe.category = "gap" <=> s < wk
            /\ probe.category = "weak" <=> (~(s >= cov) /\ ~(s < wk))

\* C2 (amended): covered iff s >= covered_threshold; gap iff s is below both
\* thresholds; weak iff weak_threshold <= s < covered_threshold; a score equal to a
\* threshold lands on the inclusive side.
C2_Categorize ==
    probe.op = "_categorize" =>
        LET s   == probe.score
            cov == SIMILARITY_THRESHOLDS.covered * RoundUnit
            wk  == SIMILARITY_THRESHOLDS.weak * RoundUnit
        IN  /\ probe.category \in Categories
            /\ probe.category = "covered" <=> s >= cov
            /\ probe.category = "gap" <=> (s < cov /\ s < wk)
            /\ probe.category = "weak" <=> (s < cov /\ s >= wk)

C2_Witness ==
    /\ probe.op = "_categorize"
    /\ probe.score = SIMILARITY_THRESHOLDS.weak * RoundUnit
    /\ probe.score < SIMILARITY_THRESHOLDS.covered * RoundUnit
    /\ probe.category = "weak"

IsArgMax(tv, pvs, j) ==
    /\ \A k \in 1..Len(pvs) : _cosine(tv.vector, pvs[k].vector) <= _cosine(tv.vector, pvs[j].vector)
    /\ \A k \in 1..(j - 1) : _cosine(tv.vector, pvs[k].vector) < _cosine(tv.vector, pvs[j].vector)

\* C3: similarity_map holds one entry per usable trend, in the order of the usable
\* trends; the entry names the product of maximal cosine similarity, the earliest one
\* among those that tie for the maximum.
C3_BestMatch ==
    /\ pc \in {"match", "reason"} =>
         /\ Len(similarity_map) <= Len(trend_vectors)
         /\ pc = "reason" => Len(similarity_map) = Len(trend_vectors)
         /\ \A i \in 1..Len(similarity_map) :
              /\ similarity_map[i].trend = trend_vectors[i].name
              /\ \E j \in 1..Len(product_vectors) :
                   /\ IsArgMax(trend_vectors[i], product_vectors, j)
                   /\ similarity_map[i].best_match_product = product_vectors[j].product
                   /\ similarity_map[i].business = product_vectors[j].business
                   /\ similarity_map[i].similarity =
                        Round4(_cosine(trend_vectors[i].vector, product_vectors[j].vector))
    /\ result.returned =>
         /\ Len(result.similarity_map) = Len(TrendRows(trends))
         /\ \A i \in 1..Len(result.similarity_map) :
              result.similarity_map[i].trend = TrendRows(trends)[i].name

\* Two products tie for the maximum with a positive score and the earlier one is
\* named.
C3_Witness ==
    /\ pc = "reason"
    /\ Len(product_vectors) = 2
    /\ product_vectors[1].product # product_vectors[2].product
    /\ \E i \in 1..Len(similarity_map) :
         /\ _cosine(trend_vectors[i].vector, product_vectors[1].vector)
              = _cosine(trend_vectors[i].vector, product_vectors[2].vector)
         /\ _cosine(trend_vectors[i].vector, product_vectors[1].vector) > 0
         /\ similarity_map[i].best_match_product = product_vectors[1].product

\* C4: the category of every SimilarityEntry is the category of its own similarity
\* field (the score rounded to 4 decimals) under the configured thresholds.
C4_CategoryOfRounded ==
    /\ \A i \in 1..Len(similarity_map) :
         similarity_map[i].category =
            CategorizeWith(SIMILARITY_THRESHOLDS, similarity_map[i].similarity * RoundUnit)
    /\ \A i \in 1..Len(result.similarity_map) :
         result.similarity_map[i].category =
            CategorizeWith(SIMILARITY_THRESHOLDS,
                           result.similarity_map[i].similarity * RoundUnit)

\* The request is over (run_gap_analysis was called and returned or raised).
Ended == invoked = 1 /\ (exc # "" \/ result.returned)

ChatIssued == \E i \in 1..Len(calls) : calls[i].op \in {"chat_insights", "chat_proposals"}

\* C5: run_gap_analysis with businesses = [] and a non-empty (well-formed) trends list,
\* or with trends = [], ends with ValueError whatever the embedding capability does.
C5_EmptyInputRejected ==
    (/\ Ended
     /\ ~AlignRaises(trends)
     /\ (businesses = <<>> /\ trends # <<>>) \/ trends = <<>>)
    => exc = "ValueError"

\* C6: with non-empty lists of which no product has an embeddable text or no trend
\* is usable, the request ends with ValueError, returns no result and issues no
\* chat completion; a request never both returns and raises.
C6_NoUsableInput ==
    /\ ~(exc # "" /\ result.returned)
    /\ (/\ Ended
        /\ businesses # <<>> /\ trends # <<>>
        /\ ~AlignRaises(trends)
        /\ ProductRows(businesses) = <<>> \/ TrendRows(trends) = <<>>)
       => (exc = "ValueError" /\ ~result.returned /\ ~ChatIssued)

Unparsable(content) == content # "error" /\ ~JsonLoads(content).ok

NoProposalList(content) ==
    /\ content # "error"
    /\ LET data == JsonLoads(content)
       IN  ~data.ok \/ data.type # "dict" \/ ~data.proposals_is_list

RawSummary(content) == [type |-> "dict", keys |-> {"summary"}, summary |-> content]

\* C7: a malformed completion never fails the request: unparsable insight content
\* becomes {"summary": <raw text>}, proposal content that is unparsable or has no
\* `proposals` list becomes [], and the request fails after a completion was
\* requested only if the capability itself failed.
C7_MalformedRecovered ==
    /\ \A i \in 1..Len(calls) :
         (calls[i].op = "chat_insights" /\ Unparsable(calls[i].output)) =>
            /\ pc \in {"propose", "assemble"} => insights = RawSummary(calls[i].output)
            /\ result.returned => result.insights = RawSummary(calls[i].output)
    /\ \A i \in 1..Len(calls) :
         (calls[i].op = "chat_proposals" /\ NoProposalList(calls[i].output)) =>
            /\ exc = ""
            /\ pc = "assemble" => product_proposals = <<>>
            /\ result.returned => result.product_proposals = <<>>
    /\ (exc # "" /\ ChatIssued) => calls[Len(calls)].output = "error"
    /\ (ChatIssued /\ calls[Len(calls)].output # "error") =>
          pc \in {"propose", "assemble", "returned", "responded"}

C7_Witness ==
    /\ result.returned
    /\ \E i \in 1..Len(calls) : calls[i].op = "chat_insights" /\ calls[i].output = TextContent
    /\ \E i \in 1..Len(calls) : calls[i].op = "chat_proposals" /\ calls[i].output = ListContent

\* C8: every element of product_proposals carries all eleven fields, launch_steps
\* with 3 to 6 items.
C8_AllFieldsPresent ==
    result.returned =>
        \A i \in 1..Len(result.product_proposals) :
            /\ ProposalFields \subseteq result.product_proposals[i].fields
            /\ result.product_proposals[i].launch_steps \in 3..6

\* C9: with at least one usable trend and one embeddable product, malformed elements
\* of the trends list are skipped: the request fails only if a capability fails.
C9_MalformedTrendsSkipped ==
    (/\ Ended
     /\ exc # ""
     /\ ProductRows(businesses) # <<>>
     /\ TrendRows(trends) # <<>>)
    => exc \in {"RuntimeError", "APIError"}

\* C10: api_gap_analysis answers 400 when a list check fails (without calling
\* run_gap_analysis) or run_gap_analysis raises ValueError, a 5xx for RuntimeError
\* and any other exception, 200 with the analysis only when run_gap_analysis
\* returned; it calls run_gap_analysis at most once.
C10_StatusMapping ==
    /\ invoked <= 1
    /\ pc = "responded" =>
         /\ (~NonEmptyList(payload.businesses) \/ ~NonEmptyList(payload.trends)) =>
               /\ response.status = 400 /\ response.message # "" /\ ~response.success
               /\ invoked = 0 /\ calls = <<>>
         /\ (NonEmptyList(payload.businesses) /\ NonEmptyList(payload.trends)) =>
               invoked = 1
         /\ exc = "ValueError" =>
               response.status = 400 /\ response.message # "" /\ ~response.success
         /\ exc \notin {"", "ValueError"} =>
               response.status \in 500..599 /\ ~response.success
         /\ response.status = 200 =>
               /\ response.success /\ response.has_analysis
               /\ result.returned /\ exc = ""
         /\ response.status \in {200, 400} \cup (500..599)

C10_Witness ==
    /\ pc = "responded"
    /\ exc = "ValueError"
    /\ invoked = 1
    /\ response.status = 400

\* C11: no process-wide state crosses requests: a request behaves as it would in a
\* process where no earlier request ran.  With the credential missing, such a
\* process raises in _get_client before any external call, so no request in
\* progress has issued a call while the credential is missing.
C11_NoSharedState == (pc # "idle" /\ ~api_key) => calls = <<>>

\* C12: for all vector pairs a, b of equal length, _cosine(a, b) = _cosine(b, a),
\* _cosine(a, b) lies in [-1, 1], and _cosine(a, b) is 0.0 whenever a or b is the
\* zero vector.
C12_CosineProperties ==
    probe.op = "_cosine" =>
        /\ probe.ab = probe.ba
        /\ AbsAtMostOne(probe.ab)
        /\ (probe.a = <<0, 0>> \/ probe.b = <<0, 0>>) => probe.ab = Zero32

\* The number of positions of seq that satisfy a comparison with e.
CountBelow(seq, e) == Cardinality({i \in 1..Len(seq) : seq[i] < e})

CountAtMost(seq, e) == Cardinality({i \in 1..Len(seq) : seq[i] <= e})

\* e is the k-th smallest element of seq (k from 1).
IsRank(seq, e, k) ==
    /\ \E i \in 1..Len(seq) : seq[i] = e
    /\ CountBelow(seq, e) < k
    /\ CountAtMost(seq, e) >= k

TenToForty(seq) ==
    /\ Len(seq) = 4
    /\ \A v \in {10, 20, 30, 40} : \E i \in 1..4 : seq[i] = v * PriceScale

\* C13 as stated: with n >= 1 parsed prices the reported q1 is the element of rank
\* floor(0.25*(n-1)) of the ascending prices and q3 the element of rank
\* floor(0.75*(n-1)), an actual element; for [10,20,30,40] in any order q1 = 10 and
\* q3 = 30.
C13_AsStated ==
    (probe.op = "catalog_report" /\ ParsedPrices(probe.flat) # <<>>) =>
        LET prices == ParsedPrices(probe.flat)
            n      == Len(prices)
            stats  == probe.report.pricing_analysis
        IN  /\ IsRank(prices, stats.q1, (n - 1) \div 4 + 1)
            /\ IsRank(prices, stats.q3, (3 * (n - 1)) \div 4 + 1)
            /\ TenToForty(prices) =>
                  stats.q1 = 10 * PriceScale /\ stats.q3 = 30 * PriceScale

\* C13 (amended): the reported q1 and q3 are those elements rounded to two decimals
\* (nearest rank, never a value between two elements); for [10,20,30,40] in any
\* order q1 = 10 and q3 = 30.
C13_Quartiles ==
    (probe.op = "catalog_report" /\ ParsedPrices(probe.flat) # <<>>) =>
        LET prices == ParsedPrices(probe.flat)
            n      == Len(prices)
            stats  == probe.report.pricing_analysis
        IN  /\ \E i \in 1..n : /\ IsRank(prices, prices[i], (n - 1) \div 4 + 1)
                                /\ stats.q1 = Round2(prices[i])
            /\ \E i \in 1..n : /\ IsRank(prices, prices[i], (3 * (n - 1)) \div 4 + 1)
                                /\ stats.q3 = Round2(prices[i])
            /\ TenToForty(prices) =>
                  stats.q1 = 10 * PriceScale /\ stats.q3 = 30 * PriceScale

C13_Witness ==
    /\ probe.op = "catalog_report"
    /\ ParsedPrices(probe.flat) = <<40 * PriceScale, 10 * PriceScale, 30 * PriceScale,
                                    20 * PriceScale>>
    /\ probe.report.pricing_analysis.q1 = 10 * PriceScale
    /\ probe.report.pricing_analysis.q3 = 30 * PriceScale

\* C14: _parse_price never raises and returns a number or absent, whatever the
\* pricing value (missing, empty, non-numeric, currency-decorated); a product whose
\* price is absent is left out of pricing_analysis only: it is counted in
\* catalog_stats and description_quality and is embedded; pricing_analysis is
\* {has_pricing: false} iff no product has a parsed price.
C14_PriceAbsentOnly ==
    /\ probe.op = "_parse_price" =>
          /\ ~probe.parsed.raised
          /\ probe.parsed.some =>
                \E i \in 1..Len(probe.text) :
                    probe.text[i] \in NumericLexemes
                    /\ probe.parsed.value = Float(<<probe.text[i]>>).value
          /\ (\A i \in 1..Len(probe.text) : probe.text[i] \notin NumericLexemes) =>
                ~probe.parsed.some
    /\ probe.op = "catalog_report" =>
          LET products == probe.businesses[1].products
              n        == Len(products)
              priced   == {i \in 1..n : probe.flat[i].price_numeric.some}
              stats    == probe.report.pricing_analysis
          IN  /\ Len(probe.flat) = n
              /\ \A i \in 1..n : ~probe.flat[i].price_numeric.raised
              /\ probe.report.catalog_stats.total_products = n
              /\ probe.report.description_quality.total_products = n
              /\ Len(probe.rows) = n
              /\ ~stats.has_pricing <=> priced = {}
              /\ stats.has_pricing =>
                    stats.price_buckets["low"] + stats.price_buckets["mid"]
                      + stats.price_buckets["high"] = Cardinality(priced)

C14_Witness ==
    /\ probe.op = "catalog_report"
    /\ Len(probe.flat) = 2
    /\ probe.flat[1].pricing_raw = <<"abc">>
    /\ ~probe.flat[1].price_numeric.some
    /\ probe.flat[2].price_numeric.some
    /\ probe.report.catalog_stats.total_products = 2
    /\ probe.report.pricing_analysis.min_price = probe.report.pricing_analysis.max_price
    /\ Len(probe.rows) = 2

\* The number of products of the businesses before the b-th.
RECURSIVE Offset(_, _)
Offset(bs, b) == IF b <= 1 THEN 0 ELSE Offset(bs, b - 1) + Len(bs[b - 1].products)

\* The records the trend flattener looks at, in order: each element of the input,
\* or in its place the children of its `results` list.
RECURSIVE Candidates(_)
Candidates(ts) ==
    IF ts = <<>> THEN <<>>
    ELSE (IF Head(ts).isdict /\ Head(ts).hasResults THEN Head(ts).results ELSE <<Head(ts)>>)
         \o Candidates(Tail(ts))

EmptyShare(empty, total) ==
    /\ Len(probe.flat) = total
    /\ Cardinality({i \in 1..Len(probe.flat) : probe.flat[i].description = ""}) = empty

\* C16: _opportunity_summary is a subsequence of the three fixed sentences in the
\* order [empty descriptions, wide price spread, low-coverage trends], each at most
\* once: the first is present iff the percentage of products with an empty
\* description is > 40 (present at 50%, absent at 10% and at exactly 40%), the
\* second iff pricing exists and max_price - min_price > 100, the third iff some
\* lexical-alignment entry has status gap.
C16_OpportunitySummary ==
    probe.op = "catalog_report" =>
        LET summary   == probe.report.opportunity_summary
            quality   == probe.report.description_quality
            stats     == probe.report.pricing_analysis
            alignment == probe.report.trend_alignment
            fixed3    == <<EmptyDescriptions, WidePriceSpread, LowCoverage>>
            has(x)    == \E i \in 1..Len(summary) : summary[i] = x
            n         == Len(probe.flat)
            empty     == Cardinality({i \in 1..n : probe.flat[i].description = ""})
        IN  /\ summary = SelectSeq(fixed3, has)
            /\ has(EmptyDescriptions) <=> quality.empty_descriptions_pct > 40 * 100
            /\ (n > 0 /\ 2 * empty = n) => has(EmptyDescriptions)
            /\ (n > 0 /\ 10 * empty = n) => ~has(EmptyDescriptions)
            /\ (n > 0 /\ 5 * empty = 2 * n) => ~has(EmptyDescriptions)
            /\ has(WidePriceSpread) <=>
                  (stats.has_pricing /\ stats.max_price - stats.min_price > 100 * PriceScale)
            /\ has(LowCoverage) <=>
                  \E i \in 1..Len(alignment) : alignment[i].status = "gap"

C16_Witness ==
    /\ probe.op = "catalog_report"
    /\ EmptyShare(2, 5)
    /\ probe.report.pricing_analysis.has_pricing
    /\ probe.report.pricing_analysis.max_price - probe.report.pricing_analysis.min_price
         = 100 * PriceScale
    /\ probe.report.opportunity_summary = <<LowCoverage>>

Ops == [i \in 1..Len(calls) |-> calls[i].op]

Embeds == {"embed_products", "embed_trends"}

Chats == {"chat_insights", "chat_proposals"}

C18_SinglePass ==
    /\ \A i \in 1..Len(calls) : \A j \in 1..Len(calls) : Ops[i] = Ops[j] => i = j
    /\ \A i \in 1..Len(calls) :
          calls[i].output = "error" =>
              /\ i = Len(calls)
              /\ pc \in {"raised", "responded"}
              /\ exc = "APIError"
              /\ ~result.returned

C18_Witness ==
    /\ pc = "raised"
    /\ Len(calls) = 2
    /\ calls[1].op = "embed_products" /\ calls[1].output = "vectors"
    /\ calls[2].op = "embed_trends" /\ calls[2].output = "error"

\* C19: the proposal request carries exactly the first max_trends entries of
\* [gap entries in order, then weak entries in order], each with coverage_level
\* equal to its category; covered entries are never sent; with both buckets empty
\* no completion is requested and product_proposals is [] even when
\* generate_product_proposals is true.
C19_ProposalPayload ==
    pc = "assemble" =>
        LET all  == Bucket(similarity_map, "gap") \o Bucket(similarity_map, "weak")
            k    == IF Len(all) < MaxProposalTrends THEN Len(all) ELSE MaxProposalTrends
            sent == SelectSeq(calls, LAMBDA c : c.op = "chat_proposals")
        IN  /\ Len(sent) <= 1
            /\ Len(sent) = 1 <=> (generate /\ all # <<>>)
            /\ all = <<>> => product_proposals = <<>>
            /\ \A c \in Range(sent) :
                  /\ Len(c.input) = k
                  /\ \A j \in 1..k :
                        /\ c.input[j].trend = all[j].trend
                        /\ c.input[j].similarity = all[j].similarity
                        /\ c.input[j].category = all[j].category
                        /\ c.input[j].coverage_level = all[j].category
                        /\ c.input[j].category # "covered"

C19_Witness ==
    /\ pc = "assemble"
    /\ generate
    /\ Len(coverage_buckets["gap"]) + Len(coverage_buckets["weak"]) = MaxProposalTrends + 1
    /\ Len(calls) = 4
    /\ calls[4].op = "chat_proposals"
    /\ Len(calls[4].input) = MaxProposalTrends
    /\ calls[4].input[1].coverage_level = "gap"
    /\ calls[4].input[MaxProposalTrends].coverage_level = "weak"

HasAnchor(r) ==
    /\ r.isdict
    /\ r.trend # "" \/ r.title # "" \/ r.core_concept # "" \/ r.industry # "" \/ r.name # ""

TitleOf(r) ==
    IF r.trend # "" THEN r.trend
    ELSE IF r.title # "" THEN r.title
    ELSE IF r.core_concept # "" THEN r.core_concept
    ELSE IF r.industry # "" THEN r.industry
    ELSE r.name

\* C20: a raw trend record is kept by normalization iff it is a dict with at least
\* one of trend, title, core_concept, industry, name non-empty; its normalized
\* title is the first non-empty of these in that order; every other record is
\* dropped, at top level and inside a `results` wrapper, and a dropped record
\* produces no similarity entry.
C20_TrendKept ==
    probe.op = "trend_records" =>
        LET cands == Candidates(probe.trends)
            kept  == SelectSeq(cands, HasAnchor)
        IN  /\ Len(probe.normalized) = Len(kept)
            /\ \A i \in 1..Len(kept) : probe.normalized[i].trend = TitleOf(kept[i])
            /\ Len(probe.entries) <= Len(kept)
            /\ \A i \in 1..Len(probe.entries) : probe.entries[i].trend = TitleOf(kept[i])

C20_Witness ==
    /\ probe.op = "trend_records"
    /\ probe.record.isdict
    /\ probe.record.trend = "" /\ probe.record.title = "" /\ probe.record.core_concept = ""
    /\ probe.record.industry = "retail" /\ probe.record.name = "wearables"
    /\ probe.trends = <<WithResults(Untitled, TRUE, <<probe.record, GreenTech>>),
                        Flat(probe.record)>>
    /\ Len(probe.entries) = 3
    /\ probe.entries[1].trend = "retail"
    /\ probe.entries[2].trend = "green energy"
    /\ probe.entries[3].trend = "retail"

NoRepeat(seq) == \A i \in 1..Len(seq), j \in 1..Len(seq) : seq[i] = seq[j] => i = j

\* C21: no keyword string occurs twice in the keywords of a normalized trend record,
\* whether the duplicate comes from one upstream field or from two.
C21_KeywordsDeduplicated ==
    probe.op = "trend_records" =>
        \A i \in 1..Len(probe.normalized) : NoRepeat(probe.normalized[i].keywords)

\* C22: every flattened product record and every similarity entry carries a
\* non-empty business name, and the business of an entry is the one under which its
\* product is counted in catalog_stats.products_per_business.
C22_BusinessNamed ==
    probe.op = "trend_records" =>
        /\ \A i \in 1..Len(probe.flat) : probe.flat[i].business # ""
        /\ \A i \in 1..Len(probe.entries) :
              /\ probe.entries[i].business # ""
              /\ \E p \in 1..Len(probe.flat) :
                    /\ probe.flat[p].name = probe.entries[i].best_match_product
                    /\ probe.flat[p].business = probe.entries[i].business
              /\ probe.entries[i].business
                    \in DOMAIN probe.report.catalog_stats.products_per_business

Embeddable(product) == product.name # "" \/ product.description # ""

AllProducts(bs) == Concat([i \in 1..Len(bs) |-> bs[i].products])

EmbeddableNames(bs) ==
    {p.name : p \in {q \in Range(AllProducts(bs)) : Embeddable(q)}}

\* C23: every embedding call carries a non-empty list of non-empty texts; the i-th
\* vector belongs to the i-th embeddable record, so there are as many product
\* (trend) vectors as embeddable products (trends); a product without text is never
\* a best match but is counted in catalog_stats.total_products.
C23_EmbeddableOnly ==
    /\ \A c \in 1..Len(calls) :
          calls[c].op \in {"embed_products", "embed_trends"} =>
              /\ calls[c].input # <<>>
              /\ \A t \in 1..Len(calls[c].input) :
                    /\ calls[c].input[t] # <<>>
                    /\ \A k \in 1..Len(calls[c].input[t]) : calls[c].input[t][k] # ""
    /\ pc \in {"trends", "validate", "match", "reason"} =>
          LET rows == ProductRows(businesses)
          IN  /\ Len(product_vectors) = Len(rows)
              /\ Len(rows) = Len(SelectSeq(AllProducts(businesses), Embeddable))
              /\ rows # <<>> =>
                    /\ calls[1].op = "embed_products"
                    /\ Len(calls[1].input) = Len(rows)
                    /\ \E m \in EmbeddingModels : \A i \in 1..Len(rows) :
                          /\ calls[1].input[i] = rows[i].text
                          /\ product_vectors[i].product = rows[i].product
                          /\ product_vectors[i].vector = Embedding(m, calls[1].input[i])
    /\ pc \in {"validate", "match", "reason"} =>
          LET rows == TrendRows(trends)
          IN  /\ Len(trend_vectors) = Len(rows)
              /\ Len(rows) = Len(_flatten_trend_records(trends))
              /\ rows # <<>> =>
                    /\ calls[Len(calls)].op = "embed_trends"
                    /\ \E m \in EmbeddingModels : \A i \in 1..Len(rows) :
                          /\ calls[Len(calls)].input[i] = rows[i].text
                          /\ trend_vectors[i].name = rows[i].name
                          /\ trend_vectors[i].vector = Embedding(m, rows[i].text)
    /\ result.returned =>
          /\ result.catalog_report.catalog_stats.total_products = Len(AllProducts(businesses))
          /\ \A i \in 1..Len(result.similarity_map) :
                result.similarity_map[i].best_match_product \in EmbeddableNames(businesses)

C23_Witness ==
    /\ result.returned
    /\ businesses = <<Acme>>
    /\ result.catalog_report.catalog_stats.total_products = 3
    /\ Len(calls[1].input) = 2
    /\ Len(result.similarity_map) = 2

\* An entry without its trend_summary.
Unsummarized(e) == [e EXCEPT !.trend_summary = <<>>]

Unsummarize(entries) == [i \in 1..Len(entries) |-> Unsummarized(entries[i])]

\* C24 as stated: for two requests with the same vectors and thresholds that differ
\* only in what the lexical alignment sees, similarity_map, the three buckets,
\* coverage_summary and opportunity_map are identical.
C24_AsStated ==
    probe.op = "two_results" =>
        /\ probe.first.similarity_map = probe.second.similarity_map
        /\ probe.first.coverage = probe.second.coverage
        /\ probe.first.coverage_summary = probe.second.coverage_summary
        /\ probe.first.opportunity_map = probe.second.opportunity_map

\* C24 (amended): the two requests have the same similarity_map and buckets except
\* for the trend_summary of a trend without description, which is the trend's joined
\* keywords; entries of trends with a description or with equal keywords are
\* identical, and so are coverage_summary and opportunity_map.
C24_AlignmentApart ==
    probe.op = "two_results" =>
        LET first  == probe.first
            second == probe.second
            rows1  == TrendRows(probe.trends1)
            rows2  == TrendRows(probe.trends2)
        IN  /\ first.returned /\ second.returned
            /\ Unsummarize(first.similarity_map) = Unsummarize(second.similarity_map)
            /\ \A i \in 1..Len(first.similarity_map) :
                  (rows1[i].insight # <<>> \/ rows1[i].evidence = rows2[i].evidence)
                      => first.similarity_map[i] = second.similarity_map[i]
            /\ \A c \in Categories :
                  Unsummarize(first.coverage[c]) = Unsummarize(second.coverage[c])
            /\ first.coverage_summary = second.coverage_summary
            /\ first.opportunity_map = second.opportunity_map

C24_Witness ==
    /\ probe.op = "two_results"
    /\ probe.first.catalog_report.trend_alignment
          # probe.second.catalog_report.trend_alignment
    /\ probe.first.trend_confidence # probe.second.trend_confidence
    /\ probe.first.similarity_map = probe.second.similarity_map
    /\ probe.first.opportunity_map # <<>>

LexicalVocabulary == {"widget", "gadget", "smart", "home"}

Labelled(t) == IF t.trend # "" THEN t.trend ELSE t.name

Alignable(ts) == SelectSeq(ts, LAMBDA t : Labelled(t) # "" /\ AlignTokens(t) # <<>>)

MatchCount(t) == Len(SelectSeq(AlignTokens(t), LAMBDA tok : tok \in LexicalVocabulary))

\* C25 as stated: coverage_score is matches / tokens and the status of an entry
\* follows from the coverage_score of the same entry (covered iff >= 0.7,
\* weak_coverage iff in [0.4, 0.7), gap otherwise).
C25_AsStated ==
    (probe.op = "catalog_report" /\ probe.businesses = LexicalCatalog) =>
        \A i \in 1..Len(probe.report.trend_alignment) :
            LET entry == probe.report.trend_alignment[i]
                trend == Alignable(probe.trends)[i]
            IN  /\ entry.coverage_score * Len(AlignTokens(trend)) = 100 * MatchCount(trend)
                /\ entry.status = "covered" <=> entry.coverage_score >= 70
                /\ entry.status = "weak_coverage" <=>
                      (entry.coverage_score >= 40 /\ entry.coverage_score < 70)
                /\ entry.status = "gap" <=> entry.coverage_score < 40

\* C25 (amended): the alignment has one entry per trend that has a label and a
\* token; its coverage_score is matches / tokens rounded to two decimals and its
\* status follows from the unrounded ratio: covered iff >= 0.7, weak_coverage iff in
\* [0.4, 0.7), gap otherwise.
C25_CoverageScore ==
    (probe.op = "catalog_report" /\ probe.businesses = LexicalCatalog) =>
        /\ Len(probe.report.trend_alignment) = Len(Alignable(probe.trends))
        /\ \A i \in 1..Len(probe.report.trend_alignment) :
              LET entry == probe.report.trend_alignment[i]
                  trend == Alignable(probe.trends)[i]
                  n     == Len(AlignTokens(trend))
                  m     == MatchCount(trend)
              IN  /\ entry.trend = Labelled(trend)
                  /\ Len(entry.matched_tokens) = m
                  /\ 2 * (100 * m - entry.coverage_score * n) <= n
                  /\ 2 * (entry.coverage_score * n - 100 * m) <= n
                  /\ entry.status = "covered" <=> 10 * m >= 7 * n
                  /\ entry.status = "weak_coverage" <=> (10 * m >= 4 * n /\ 10 * m < 7 * n)
                  /\ entry.status = "gap" <=> 10 * m < 4 * n

C25_Witness ==
    /\ probe.op = "catalog_report"
    /\ Len(probe.trends) = 1
    /\ Len(AlignTokens(probe.trends[1])) = 23
    /\ Len(probe.report.trend_alignment) = 1
    /\ Len(probe.report.trend_alignment[1].matched_tokens) = 16
    /\ probe.report.trend_alignment[1].coverage_score = 70
    /\ probe.report.trend_alignment[1].status = "weak_coverage"

\* Place of the p-th alignment entry in the descending, stable order.
Place(alignment, p) ==
    1 + Cardinality({q \in 1..Len(alignment) :
                        \/ alignment[q].coverage_score > alignment[p].coverage_score
                        \/ /\ alignment[q].coverage_score = alignment[p].coverage_score
                           /\ q < p})

\* C26: trend_confidence holds min(8, n) of the n alignment entries in
\* non-increasing coverage_score order, entries of equal score in their input
\* order, no omitted entry scoring higher than an included one; trend_alignment
\* itself stays in input order.
C26_TrendConfidence ==
    (probe.op = "catalog_report" /\ probe.businesses = LexicalCatalog) =>
        LET alignment == probe.report.trend_alignment
            ranked    == probe.trend_confidence
        IN  /\ Len(ranked) = Min(MaxConfidence, Len(alignment))
            /\ \A i \in 1..Len(ranked), j \in 1..Len(ranked) :
                  i < j => ranked[i].coverage_score >= ranked[j].coverage_score
            /\ \A p \in 1..Len(alignment) :
                  IF Place(alignment, p) <= MaxConfidence
                  THEN ranked[Place(alignment, p)] = alignment[p]
                  ELSE alignment[p].coverage_score <= ranked[Len(ranked)].coverage_score
            /\ \A p \in 1..Len(alignment) :
                  alignment[p].trend = Labelled(Alignable(probe.trends)[p])

C26_Witness ==
    /\ probe.op = "catalog_report"
    /\ Len(probe.report.trend_alignment) = MaxConfidence + 1
    /\ Len(probe.trend_confidence) = MaxConfidence
    /\ probe.report.trend_alignment[1].coverage_score = 0
    /\ probe.report.trend_alignment[1].trend = "green energy"
    /\ probe.report.trend_alignment[MaxConfidence + 1].trend = "ai agents"
    /\ probe.trend_confidence[1].trend = "green energy"
    /\ probe.trend_confidence[MaxConfidence].trend = "ai agents"

\* C27: every entry of a successful result has keywords = [], so top_gap_themes is
\* empty and every opportunity_map note emphasizes "new proof points", whatever
\* keywords the trends of the request carry.
C27_NoKeywords ==
    /\ \A i \in 1..Len(similarity_map) : similarity_map[i].keywords = <<>>
    /\ result.returned =>
          /\ \A i \in 1..Len(result.similarity_map) :
                result.similarity_map[i].keywords = <<>>
          /\ \A c \in Categories : \A i \in 1..Len(result.coverage[c]) :
                result.coverage[c][i].keywords = <<>>
          /\ result.top_gap_themes = <<>>
          /\ \A i \in 1..Len(result.opportunity_map) :
                result.opportunity_map[i].emphasis = <<"new proof points">>

C27_Witness ==
    /\ result.returned
    /\ trends = <<Flat(SmartHome)>>
    /\ Len(result.coverage["gap"]) = 1
    /\ result.coverage["gap"][1].trend_summary = <<"smart", "home", "automation">>
    /\ Len(result.opportunity_map) = 1

\* C28: opportunity_map has min(8, number of gap entries) entries, the i-th built
\* from the i-th gap entry; coverage_summary[c].count is the size of bucket c and
\* percent is round(count / total * 100, 1) with total the sum of the three bucket
\* sizes, at least 1 in a successful result.
C28_Aggregates ==
    probe.op = "one_result" =>
        LET r     == probe.result
            gap   == Bucket(r.similarity_map, "gap")
            total == Len(r.similarity_map)
        IN  /\ r.returned
            /\ total >= 1
            /\ total = BucketTotal(r.coverage)
            /\ Len(r.opportunity_map) = Min(MaxOpportunities, Len(gap))
            /\ \A i \in 1..Len(r.opportunity_map) :
                  /\ r.opportunity_map[i].trend = gap[i].trend
                  /\ r.opportunity_map[i].best_match_product = gap[i].best_match_product
                  /\ r.opportunity_map[i].business = gap[i].business
                  /\ r.opportunity_map[i].similarity = gap[i].similarity
                  /\ gap[i].category = "gap"
            /\ \A c \in Categories :
                  /\ r.coverage_summary[c].count = Len(Bucket(r.similarity_map, c))
                  /\ r.coverage_summary[c].count = Len(r.coverage[c])
                  /\ 2 * (1000 * r.coverage_summary[c].count
                            - r.coverage_summary[c].percent * total) <= total
                  /\ 2 * (r.coverage_summary[c].percent * total
                            - 1000 * r.coverage_summary[c].count) < total

C28_Witness ==
    /\ probe.op = "one_result"
    /\ Len(probe.result.coverage["gap"]) = MaxOpportunities + 1
    /\ Len(probe.result.opportunity_map) = MaxOpportunities
    /\ probe.result.coverage_summary["gap"].count = MaxOpportunities + 1
    /\ probe.result.coverage_summary["gap"].percent = 1000

\* C29: every trend of similarity_map (its title always yields a token) has an
\* entry with its title in catalog_report.trend_alignment, also when it is nested
\* under a `results` wrapper or titled by `title`, `core_concept` or `industry`.
C29_SameTrends ==
    probe.op = "trend_records" =>
        \A i \in 1..Len(probe.entries) :
            \E j \in 1..Len(probe.report.trend_alignment) :
                probe.report.trend_alignment[j].trend = probe.entries[i].trend

\* C30 as stated, q1 and q3 being the figures of the report: low + mid + high is the
\* number of priced products, low counts the prices <= q1, high those > q1 and
\* >= q3, mid the others, and min_price <= q1 <= q3 <= max_price.
C30_AsStated ==
    (probe.op = "catalog_report" /\ ParsedPrices(probe.flat) # <<>>) =>
        LET prices == ParsedPrices(probe.flat)
            stats  == probe.report.pricing_analysis
            counts == stats.price_buckets
        IN  /\ counts["low"] + counts["mid"] + counts["high"] = Len(prices)
            /\ counts["low"] = Cardinality({k \in 1..Len(prices) : prices[k] <= stats.q1})
            /\ counts["high"] =
                  Cardinality({k \in 1..Len(prices) : prices[k] > stats.q1
                                                   /\ prices[k] >= stats.q3})
            /\ counts["mid"] =
                  Cardinality({k \in 1..Len(prices) : prices[k] > stats.q1
                                                   /\ prices[k] < stats.q3})
            /\ stats.min_price <= stats.q1
            /\ stats.q1 <= stats.q3
            /\ stats.q3 <= stats.max_price

\* C30 (amended): with e1 and e3 the quartile elements of the sorted prices (the
\* report's q1 and q3 are their roundings to two decimals), low + mid + high is the
\* number of priced products, low counts the prices <= e1, high those > e1 and
\* >= e3, mid the others; the reported figures satisfy
\* min_price <= q1 <= q3 <= max_price, and equal prices are all low.
C30_PriceBuckets ==
    (probe.op = "catalog_report" /\ ParsedPrices(probe.flat) # <<>>) =>
        LET prices == ParsedPrices(probe.flat)
            n      == Len(prices)
            stats  == probe.report.pricing_analysis
            counts == stats.price_buckets
        IN  /\ stats.has_pricing
            /\ counts["low"] + counts["mid"] + counts["high"] = n
            /\ \E i \in 1..n, j \in 1..n :
                  /\ IsRank(prices, prices[i], (n - 1) \div 4 + 1)
                  /\ IsRank(prices, prices[j], (3 * (n - 1)) \div 4 + 1)
                  /\ stats.q1 = Round2(prices[i])
                  /\ stats.q3 = Round2(prices[j])
                  /\ counts["low"] = Cardinality({k \in 1..Len(prices) : prices[k] <= prices[i]})
                  /\ counts["high"] =
                        Cardinality({k \in 1..Len(prices) : prices[k] > prices[i]
                                                         /\ prices[k] >= prices[j]})
                  /\ counts["mid"] =
                        Cardinality({k \in 1..Len(prices) : prices[k] > prices[i]
                                                         /\ prices[k] < prices[j]})
            /\ stats.min_price <= stats.q1
            /\ stats.q1 <= stats.q3
            /\ stats.q3 <= stats.max_price
            /\ (\A i \in 1..n : prices[i] = prices[1]) => counts["low"] = n

C30_Witness ==
    /\ probe.op = "catalog_report"
    /\ Len(ParsedPrices(probe.flat)) = 4
    /\ probe.report.pricing_analysis.price_buckets["low"] = 1
    /\ probe.report.pricing_analysis.price_buckets["mid"] = 1
    /\ probe.report.pricing_analysis.price_buckets["high"] = 2
    /\ probe.report.pricing_analysis.q1 < probe.report.pricing_analysis.q3
====
